---- MODULE Spec2Model ----
(***************************************************************************)
(* Model of the Sorting Hat kiosk: the session orchestrator                *)
(* (sorting_hat_app.py, SortingHatApp) and the four QThread workers        *)
(* (workers.py) it starts, stops and listens to.                           *)
(*                                                                         *)
(* Threads and signals.  Every worker is a QThread whose run() executes on *)
(* its own thread; its signals are connected to methods of the main window *)
(* and are therefore queued: an emission posts a call to the main thread's *)
(* event queue (posted).  A call that is already posted is delivered even  *)
(* when the signal is disconnected afterwards.                             *)
(*                                                                         *)
(* The main thread.  A handler runs without interruption until it returns  *)
(* or reaches a nested event loop: QApplication.processEvents() at the end *)
(* of _stop_all_active_workers, or the modal QMessageBox.warning of        *)
(* _handle_ui_error.  A nested loop delivers posted calls (and, for        *)
(* processEvents, user input) by running their handlers inside the handler *)
(* that is waiting.  call_stack holds, for every handler waiting in a      *)
(* nested loop, the rest of what it will execute (a sequence of ops).      *)
(***************************************************************************)
EXTENDS Integers, Sequences, FiniteSets, TLC

\* ------------------------------------------------------------- constants
FINAL_SORTING_STEP_COMPLETE == 99
MinQuestions == 3
MaxQuestions == 5
MinAudioBytes == 1024
BlockBytes == 8820
\* _safe_stop_worker: the timeouts of its callers and of its last wait (ms).
InterruptTimeoutMs == 1000
DefaultTimeoutMs == 1500
ShutdownTimeoutMs == 3500
TerminateWaitMs == 500
\* DeepSeekWorker.run: max_tokens of a question turn and of a sorting turn.
QuestionMaxTokens == 80
SortingMaxTokens == 200

\* ---------------------------------------------------------------- bounds
\* Worker objects that exist at once (running, or finished with a call
\* still posted).
MaxWorkers == 2
\* Handlers waiting in a nested event loop at once.
MaxDepth == 1
\* Audio blocks a capture can deliver.
MaxFrames == 1
\* Length to which hist is kept.
MaxHist == 3
\* Animation requests that wait, nested, for their cycle-complete signal.
MaxPending == 3
\* Video positions: 0 is the first frame, Dur the end of the clip.
Dur == 3
\* Cycle-complete signals counted (the count saturates).
MaxEmits == 3
\* The longest time a worker's run() still needs, in steps of time.
MaxRunTicks == 9
\* The largest api_parameters.max_tokens_override looked at.
MaxOverride == 2

VARIABLES
    interaction_step,               \* SortingHatApp.interaction_step
    questions_to_ask_this_session,  \* SortingHatApp.questions_to_ask_this_session
    current_oracle_state,           \* "idle" | "thinking" | "speaking"
    is_shutting_down,               \* SortingHatApp._is_shutting_down
    record_button,                  \* record_button.isEnabled()
    stop_button,                    \* stop_button.isEnabled()
    activate_hat_button,            \* activate_hat_button.isEnabled()
    recorder_worker,                \* worker slots: 0 is None, NoRun is a worker
    stt_worker,                     \* object that has finished and has no call
    deepseek_worker,                \* posted any more, 1..MaxWorkers is a thread
    tts_worker,
    speaking_gif_load_successful,   \* AnimationHandler: hat.gif loaded
    thinking_gif_load_successful,   \* AnimationHandler: hat_think.gif loaded
    threads,                        \* the worker threads, by id
    posted,                         \* calls posted to the main thread, in order
    call_stack,                     \* handlers waiting in a nested event loop
    hist,                           \* history: what was handled since activation
    resets,                         \* history: session resets since activation
    ev,                             \* history: the handler that has just returned
    run_end,                        \* history: the worker run that has just ended
    status_label,                   \* the text of the status line, by kind
    just_sorted_flag,               \* SortingHatApp._just_sorted_flag is set
    video_handler,                  \* the MediaPlayerHandler and its QMediaPlayer
    stt_run,                        \* one SpeechToTextWorker.run, with its inputs
    stop_call,                      \* one _safe_stop_worker call, with its worker
    deepseek_request,               \* one DeepSeekWorker.run, with its inputs
    animation_handler,              \* the AnimationHandler and its two QMovies
    worker_run                      \* one worker thread's run(), step by step

app_vars == <<interaction_step, questions_to_ask_this_session,
              current_oracle_state, is_shutting_down,
              record_button, stop_button, activate_hat_button,
              recorder_worker, stt_worker, deepseek_worker, tts_worker,
              speaking_gif_load_successful, thinking_gif_load_successful,
              threads, posted, call_stack, hist, resets, ev, run_end,
              status_label, just_sorted_flag>>

vars == <<app_vars, video_handler, stt_run, stop_call, deepseek_request,
          animation_handler, worker_run>>

Kinds == {"capture", "transcription", "dialogue", "narration"}
Ids == 1..MaxWorkers
NoRun == -1

\* A thread id that is not in use.
FreeThread == [kind |-> "none", st |-> "free", pc |-> "-", conn |-> FALSE,
               recording |-> FALSE, told |-> FALSE,
               hat_initiates |-> FALSE, arg |-> "-",
               nfin |-> 0, nerr |-> 0]

\* QThread object right after start(): running, signals connected.
NewThread(kind, arg) ==
    [kind |-> kind, st |-> "run", pc |-> "start", conn |-> TRUE,
     recording |-> FALSE, told |-> FALSE, hat_initiates |-> FALSE,
     arg |-> arg,
     nfin |-> 0, nerr |-> 0]

NoEv == [h |-> "none", at_planned |-> FALSE, same_step |-> TRUE,
         same_planned |-> TRUE]
NoRunEnd == [kind |-> "none", nfin |-> 0, nerr |-> 0]

\* The state as one record, so that a handler is a function on states.
St == [interaction_step |-> interaction_step,
       questions_to_ask_this_session |-> questions_to_ask_this_session,
       current_oracle_state |-> current_oracle_state,
       is_shutting_down |-> is_shutting_down,
       record_button |-> record_button,
       stop_button |-> stop_button,
       activate_hat_button |-> activate_hat_button,
       recorder_worker |-> recorder_worker,
       stt_worker |-> stt_worker,
       deepseek_worker |-> deepseek_worker,
       tts_worker |-> tts_worker,
       speaking_gif_load_successful |-> speaking_gif_load_successful,
       thinking_gif_load_successful |-> thinking_gif_load_successful,
       threads |-> threads,
       posted |-> posted,
       call_stack |-> call_stack,
       hist |-> hist,
       resets |-> resets,
       ev |-> NoEv,
       run_end |-> NoRunEnd,
       status_label |-> status_label,
       just_sorted_flag |-> just_sorted_flag,
       ok |-> TRUE]

Slot(s, kind) ==
    CASE kind = "capture" -> s.recorder_worker
      [] kind = "transcription" -> s.stt_worker
      [] kind = "dialogue" -> s.deepseek_worker
      [] kind = "narration" -> s.tts_worker

SetSlot(s, kind, v) ==
    CASE kind = "capture" -> [s EXCEPT !.recorder_worker = v]
      [] kind = "transcription" -> [s EXCEPT !.stt_worker = v]
      [] kind = "dialogue" -> [s EXCEPT !.deepseek_worker = v]
      [] kind = "narration" -> [s EXCEPT !.tts_worker = v]

\* QThread.isRunning() of the object a slot value refers to.
isRunning(s, v) == v \in Ids /\ s.threads[v].st = "run"

Min(S) == CHOOSE x \in S : \A y \in S : x <= y

\* ---------------------------------------------------------------- threads
\* A queued signal: the call posted to the main thread.  n is the number of
\* audio blocks behind a capture result; turn is what a dialogue worker was
\* asked for (history: the reply text itself is not modelled).
Call(w, kind, sig, arg, n, turn) ==
    [w |-> w, kind |-> kind, sig |-> sig, arg |-> arg, n |-> n, turn |-> turn]

\* DeepSeekWorker.get_system_prompt: what the worker asks the model for, from
\* the conversation_step and questions_for_this_round it was created with.
Turn(conversation_step, questions_for_this_round) ==
    IF conversation_step < questions_for_this_round THEN "question"
    ELSE IF conversation_step = questions_for_this_round THEN "sorting"
    ELSE "neither"

\* signal.emit() in run(): posted to the main thread if still connected.
Emit(s, w, sig, arg, n) ==
    LET t == s.threads[w]
        t2 == IF sig = "finished" THEN [t EXCEPT !.nfin = @ + 1]
                                  ELSE [t EXCEPT !.nerr = @ + 1]
    IN  [s EXCEPT !.threads[w] = t2,
                  !.posted = IF t.conn
                             THEN Append(@, Call(w, t.kind, sig, arg, n,
                                                 IF t.kind = "dialogue"
                                                 THEN t.arg ELSE "-"))
                             ELSE @]

\* run() returns: the thread is no longer running.
RunReturns(s, w) ==
    LET t == s.threads[w]
    IN  [s EXCEPT !.threads[w] = [t EXCEPT !.st = "done", !.pc = "-",
                                           !.conn = FALSE,
                                           !.recording = FALSE,
                                           !.told = FALSE,
                                           !.hat_initiates = FALSE,
                                           !.arg = "-",
                                           !.nfin = 0, !.nerr = 0],
                  !.run_end = [kind |-> t.kind, nfin |-> t.nfin, nerr |-> t.nerr]]

\* Python drops a finished worker object once no posted call refers to it;
\* a slot that still names it then holds a finished worker (NoRun).
Collect(s) ==
    LET gone == {w \in Ids : s.threads[w].st = "done"
                               /\ \A i \in 1..Len(s.posted) : s.posted[i].w # w}
        fix(v) == IF v \in gone THEN NoRun ELSE v
    IN  [s EXCEPT !.threads = [w \in Ids |-> IF w \in gone THEN FreeThread
                                                           ELSE s.threads[w]],
                  !.resets = IF s.hist = <<>> THEN 0 ELSE @,
                  !.recorder_worker = fix(@),
                  !.stt_worker = fix(@),
                  !.deepseek_worker = fix(@),
                  !.tts_worker = fix(@)]

\* WorkerClass(...); connect the three signals; start().
StartWorker(s, kind, arg) ==
    LET free == {w \in Ids : s.threads[w].st = "free"}
    IN  IF free = {} THEN [s EXCEPT !.ok = FALSE]
        ELSE LET w == Min(free)
             IN  SetSlot([s EXCEPT !.threads[w] = NewThread(kind, arg)],
                         kind, w)

\* DeepSeekWorker(user_text, interaction_step, questions): the worker keeps
\* which prompt the turn is for, and whether construct_user_message takes its
\* first branch (conversation_step == 0 and user_text is None).
StartDialogueWorker(s, has_text) ==
    LET n == StartWorker(s, "dialogue",
                         Turn(s.interaction_step,
                              s.questions_to_ask_this_session))
    IN  IF n.ok
        THEN [n EXCEPT !.threads[n.deepseek_worker].hat_initiates =
                           (s.interaction_step = 0 /\ ~has_text)]
        ELSE n

\* A stop_recording that flips the flag instead of clearing it.
StopRecordingToggles(s, w) ==
    [s EXCEPT !.threads[w].recording = ~@, !.threads[w].told = TRUE]

\* AudioRecorderWorker.stop_recording.
StopRecordingFlag(s, w) ==
    [s EXCEPT !.threads[w].recording = FALSE, !.threads[w].told = TRUE]

\* TextToSpeechWorker.stop_tts_signal: _should_stop, and engine.stop() with
\* its exceptions swallowed.
StopTtsSignal(s, w) ==
    [s EXCEPT !.threads[w].told = TRUE]

\* _safe_stop_worker(worker, ...): nothing for None or a finished worker; a
\* running one is told to stop, its signals are disconnected, and it is
\* joined (wait) or, after the timeout, terminated.
SafeStopWorker(s, v) ==
    IF isRunning(s, v)
    THEN LET s0 == IF s.threads[v].kind = "capture"
                   THEN StopRecordingFlag(s, v)
                   ELSE IF s.threads[v].kind = "narration"
                   THEN StopTtsSignal(s, v)
                   ELSE s
         IN  [s0 EXCEPT !.threads[v] =
                  [@ EXCEPT !.st = "done", !.pc = "-", !.conn = FALSE,
                            !.recording = FALSE, !.told = FALSE,
                            !.hat_initiates = FALSE, !.arg = "-",
                            !.nfin = 0, !.nerr = 0]]
    ELSE s

\* _safe_stop_worker on a slot, and the slot set to None by the caller.
SafeStopWorker_and_clear(s, kind) ==
    SetSlot(SafeStopWorker(s, Slot(s, kind)), kind, 0)

\* _stop_all_active_workers, up to its processEvents() call.
StopAllActiveWorkers(s) ==
    SafeStopWorker_and_clear(
      SafeStopWorker_and_clear(
        SafeStopWorker_and_clear(
          SafeStopWorker_and_clear(s, "capture"),
          "transcription"),
        "dialogue"),
      "narration")

\* ------------------------------------------------------------ main thread
\* One op of a handler: a stretch of code between two calls that matter.
O(name) == [op |-> name, a |-> "-", b |-> 0, c |-> 0]
OA(name, a) == [op |-> name, a |-> a, b |-> 0, c |-> 0]
\* The end of handler h, which was entered with interaction_step = pre and
\* questions_to_ask_this_session = preq (history: ev then tells whether pre
\* was preq and whether the two fields still have these values).
Ret(h, pre, preq) == [op |-> "ret", a |-> h, b |-> pre, c |-> preq]

\* A handler waiting in a nested event loop: processEvents() ("pe") or the
\* modal message box ("box"), with the ops it runs when the loop returns.
Frame(pc, k) == [pc |-> pc, k |-> k]

QuestionRange == MinQuestions..MaxQuestions

\* A reset that plans one question more than it drew.
ResetAssignOneMore(s, rnd) ==
    [s EXCEPT !.questions_to_ask_this_session = rnd + 1,
              !.interaction_step = 0,
              !.current_oracle_state = "idle",
              !.activate_hat_button = TRUE,
              !.record_button = TRUE,
              !.stop_button = FALSE,
              !.resets = IF @ < 2 THEN @ + 1 ELSE @]

\* _reset_interaction_flow_and_ui after _stop_all_active_workers, down to
\* the call of set_thinking_animation.
ResetAssign(s, rnd) ==
    [s EXCEPT !.questions_to_ask_this_session = rnd,
              !.interaction_step = 0,
              !.current_oracle_state = "idle",
              !.activate_hat_button = TRUE,
              !.record_button = TRUE,
              !.stop_button = FALSE,
              !.resets = IF @ < 2 THEN @ + 1 ELSE @]

\* _update_status_bar with a message of the given kind: "sorting_complete"
\* is "Sorting complete. Waiting for the next student...", "waiting" is
\* "Waiting for a lucky student...", "other" any other message.
UpdateStatusBar(s, message) ==
    IF s.is_shutting_down THEN s ELSE [s EXCEPT !.status_label = message]

\* _reset_interaction_flow_and_ui: the status line gets initial_message and
\* the just-sorted flag is deleted.
ResetStatus(s, initial_message) ==
    [UpdateStatusBar(s, IF initial_message = "sorting_complete"
                        THEN "sorting_complete" ELSE "other")
        EXCEPT !.just_sorted_flag = FALSE]

\* on_animation_cycle_completed (a direct call: same thread), after the
\* animation_status_signal that every animation request emits first.
OnAnimationCycleCompleted(s) ==
    IF s.is_shutting_down
    THEN s
    ELSE IF s.interaction_step = 0 /\ s.current_oracle_state = "idle"
    THEN [s EXCEPT !.status_label = IF s.just_sorted_flag
                                    THEN "sorting_complete" ELSE "waiting",
                   !.activate_hat_button = TRUE,
                   !.record_button = TRUE,
                   !.stop_button = FALSE]
    ELSE [s EXCEPT !.status_label = "other"]

\* _handle_ui_error: the message box, then a full reset.
HandleUiError == <<O("box"), O("stop_all"), O("pe"), O("reset_assign"),
                   O("set_thinking")>>

\* _reset_interaction_flow_and_ui.
ResetFlow == <<O("stop_all"), O("pe"), O("reset_assign"), O("set_thinking")>>

\* AnimationHandler.set_thinking_animation as the orchestrator sees it: the
\* cycle-complete signal (thinking GIF, or the frozen speaking GIF as the
\* fallback), or _emit_error_and_complete when neither GIF is loaded.
SetThinkingAnimation(s) ==
    IF s.thinking_gif_load_successful \/ s.speaking_gif_load_successful
    THEN <<O("anim_completed")>>
    ELSE IF s.is_shutting_down
    THEN <<>>
    ELSE HandleUiError \o <<O("anim_completed")>>

\* AnimationHandler.set_speaking_animation_active as the orchestrator sees
\* it: nothing when the GIF is loaded, _emit_error_and_complete otherwise.
SetSpeakingAnimationActive(s) ==
    IF s.speaking_gif_load_successful \/ s.is_shutting_down
    THEN <<>>
    ELSE HandleUiError \o <<O("anim_completed")>>

\* A step counter that asks one question more than planned.
AdvanceStepOneMore(step, planned) ==
    IF step <= planned THEN step + 1 ELSE FINAL_SORTING_STEP_COMPLETE

\* A step counter that does not count the reply.
AdvanceStepStuck(step, planned) ==
    IF step < planned THEN step ELSE FINAL_SORTING_STEP_COMPLETE

\* on_deepseek_response_received: the step counter.
AdvanceStep(step, planned) ==
    IF step < planned THEN step + 1 ELSE FINAL_SORTING_STEP_COMPLETE

\* A recording start that also plans the session anew.
StartAudioRecordingCommonReplans(s) ==
    [s EXCEPT !.questions_to_ask_this_session = MinQuestions,
              !.activate_hat_button = TRUE,
              !.record_button = FALSE,
              !.stop_button = TRUE]

\* A recording start that leaves the record button as it is.
StartAudioRecordingCommonKeepsRecord(s) ==
    IF s.is_shutting_down THEN s
    ELSE StartWorker([s EXCEPT !.stop_button = TRUE], "capture", "-")

\* _start_audio_recording_common.
StartAudioRecordingCommon(s) ==
    LET s1 == [s EXCEPT !.activate_hat_button = TRUE,
                        !.record_button = FALSE,
                        !.stop_button = TRUE]
    IN  IF s.is_shutting_down
        THEN s
        ELSE IF isRunning(s1, s1.recorder_worker)
        THEN s1
        ELSE StartWorker(s1, "capture", "-")

\* The effect of one op that neither waits nor expands.
Do(o, s, rnd) ==
    CASE o.op = "stop_all" -> StopAllActiveWorkers(s)
      [] o.op = "reset_assign" -> ResetStatus(ResetAssign(s, rnd), o.a)
      [] o.op = "just_sorted" -> [s EXCEPT !.just_sorted_flag = TRUE]
      [] o.op = "status" -> UpdateStatusBar(s, "other")
      [] o.op = "anim_completed" -> OnAnimationCycleCompleted(s)
      [] o.op = "rec_fin_head" ->
            \* on_recording_session_finished, _prepare_for_oracle_thinking
            [s EXCEPT !.status_label = "other",
                      !.activate_hat_button = TRUE,
                      !.record_button = TRUE,
                      !.stop_button = FALSE]
      [] o.op = "oracle_thinking" ->
            [s EXCEPT !.current_oracle_state = "thinking"]
      [] o.op = "start_stt" ->
            StartWorker(UpdateStatusBar(s, "other"), "transcription", "-")
      [] o.op = "start_ds" ->
            StartDialogueWorker(UpdateStatusBar(s, "other"), TRUE)
      [] o.op = "activate_rest" ->
            \* activate_oracle_interaction after the reset
            LET s1 == [s EXCEPT !.interaction_step = 0,
                                !.status_label = "other",
                                !.current_oracle_state = "thinking",
                                !.hist = <<"activate">>,
                                !.resets = 0]
            IN  StartDialogueWorker(s1, FALSE)
      [] o.op = "start_rec_common" ->
            StartAudioRecordingCommon(UpdateStatusBar(s, "other"))
      [] o.op = "ds_resp" ->
            [s EXCEPT !.current_oracle_state = "speaking",
                      !.status_label = "other",
                      !.interaction_step =
                          AdvanceStep(@, s.questions_to_ask_this_session)]
      [] o.op = "start_tts" -> StartWorker(s, "narration", "-")
      [] o.op = "tts_fin_else" ->
            [s EXCEPT !.record_button = TRUE,
                      !.stop_button = FALSE,
                      !.activate_hat_button = TRUE]
      [] o.op = "ret" ->
            [s EXCEPT !.ev = [h |-> o.a,
                              at_planned |-> o.b = o.c,
                              same_step |-> s.interaction_step = o.b,
                              same_planned |->
                                  s.questions_to_ask_this_session = o.c]]

\* Run a handler's ops until it returns or waits in a nested event loop.
RECURSIVE Exec(_, _, _)
Exec(prog, s, rnd) ==
    IF prog = <<>> THEN s
    ELSE LET o == Head(prog)
             r == Tail(prog)
         IN  CASE o.op \in {"pe", "box"} ->
                    [s EXCEPT !.call_stack = <<Frame(o.op, r)>> \o @]
               [] o.op = "set_thinking" ->
                    Exec(SetThinkingAnimation(s) \o r, s, rnd)
               [] o.op = "set_speaking" ->
                    Exec(SetSpeakingAnimationActive(s) \o r, s, rnd)
               [] o.op = "tts_fin_branch" ->
                    \* on_tts_playback_finished: the final step resets
                    Exec((IF s.interaction_step = FINAL_SORTING_STEP_COMPLETE
                          THEN <<O("just_sorted"), O("stop_all"), O("pe"),
                                 OA("reset_assign", "sorting_complete"),
                                 O("set_thinking")>>
                          ELSE <<O("status"), O("set_thinking"),
                                 O("tts_fin_else")>>) \o r,
                         s, rnd)
               [] OTHER ->
                    \* the state after the op, then the rest from that state
                    CHOOSE x \in {Exec(r, n, rnd) : n \in {Do(o, s, rnd)}} :
                        TRUE

\* os.path.getsize of the WAV written from n blocks of int16 samples.
FileSize(n) == n * BlockBytes

\* on_recording_session_finished: the test for "no audio captured".
NoAudioCaptured(n) == n = 0 \/ FileSize(n) < MinAudioBytes

\* The slot a posted call runs, as the ops of the handler.
HandlerOf(e, s) ==
    LET pre == s.interaction_step
        preq == s.questions_to_ask_this_session
    IN  CASE e.sig = "error" ->
                \* _on_recording_error, _on_stt_error, _on_deepseek_error,
                \* _on_tts_error
                HandleUiError \o <<Ret("err_" \o e.kind, pre, preq)>>
          [] e.sig = "finished" /\ e.kind = "capture" ->
                \* on_recording_session_finished
                <<O("rec_fin_head"), O("set_thinking"), O("oracle_thinking")>>
                \o (IF NoAudioCaptured(e.n)
                    THEN HandleUiError \o <<Ret("rec_empty", pre, preq)>>
                    ELSE <<O("start_stt"), Ret("rec_ok", pre, preq)>>)
          [] e.sig = "finished" /\ e.kind = "transcription" ->
                \* on_stt_conversion_finished
                IF e.arg = "blank"
                THEN HandleUiError
                     \o <<O("set_thinking"), Ret("stt_blank", pre, preq)>>
                ELSE <<OA("start_ds", "text"), Ret("stt_ok", pre, preq)>>
          [] e.sig = "finished" /\ e.kind = "dialogue" ->
                \* on_deepseek_response_received
                <<O("ds_resp"), O("set_speaking"),
                  O("start_tts"), Ret("ds_" \o e.turn, pre, preq)>>
          [] e.sig = "finished" /\ e.kind = "narration" ->
                \* on_tts_playback_finished
                <<O("status"), O("oracle_thinking"), O("tts_fin_branch"),
                  Ret(IF pre = FINAL_SORTING_STEP_COMPLETE
                      THEN "tts_final" ELSE "tts_fin", pre, preq)>>

\* History: the events since the last activation, while they are only
\* dialogue successes and narration ends.
HistAdd(h, e) ==
    LET l == IF e.sig = "finished" /\ e.kind = "dialogue" THEN "ds_ok"
             ELSE IF e.sig = "finished" /\ e.kind = "narration" THEN "tts_fin"
             ELSE "other"
    IN  IF h = <<>> \/ l = "other" \/ Len(h) >= MaxHist THEN <<>>
        ELSE Append(h, l)

\* The animation requests that have emitted the error signal and not yet
\* the cycle-complete signal (_emit_error_and_complete is between its two
\* emits): the handlers of cs hold them as ops still to run.
PendingCycles(cs) ==
    Cardinality({p \in UNION {{<<f, i>> : i \in 1..Len(cs[f].k)} :
                                f \in 1..Len(cs)} :
                    cs[p[1]].k[p[2]].op = "anim_completed"})

\* The next state is the record n.
Becomes(next) ==
    \E n \in {next} :
        /\ n.ok
        /\ ~(is_shutting_down /\ call_stack = <<>>)   \* the application has quit
        /\ Len(n.call_stack) <= MaxDepth
        /\ PendingCycles(n.call_stack) <= MaxPending
        /\ interaction_step' = n.interaction_step
        /\ questions_to_ask_this_session' = n.questions_to_ask_this_session
        /\ current_oracle_state' = n.current_oracle_state
        /\ is_shutting_down' = n.is_shutting_down
        /\ record_button' = n.record_button
        /\ stop_button' = n.stop_button
        /\ activate_hat_button' = n.activate_hat_button
        /\ recorder_worker' = n.recorder_worker
        /\ stt_worker' = n.stt_worker
        /\ deepseek_worker' = n.deepseek_worker
        /\ tts_worker' = n.tts_worker
        /\ speaking_gif_load_successful' = n.speaking_gif_load_successful
        /\ thinking_gif_load_successful' = n.thinking_gif_load_successful
        /\ threads' = n.threads
        /\ posted' = n.posted
        /\ call_stack' = n.call_stack
        /\ hist' = n.hist
        /\ resets' = n.resets
        /\ ev' = n.ev
        /\ run_end' = n.run_end
        /\ status_label' = n.status_label
        /\ just_sorted_flag' = n.just_sorted_flag
        /\ UNCHANGED <<video_handler, stt_run, stop_call, deepseek_request,
                     animation_handler, worker_run>>

\* The main thread is in an event loop that takes user input: the
\* application's own loop or processEvents(); the modal box blocks input
\* to the main window, and there is no window before the constructor has
\* returned (with neither GIF it does not: InitAssets).
UserInputAllowed ==
    /\ speaking_gif_load_successful \/ thinking_gif_load_successful
    /\ IF call_stack = <<>> THEN TRUE ELSE Head(call_stack).pc = "pe"

\* The nested event loop the main thread is in, "-" for the application's.
InLoop == IF call_stack = <<>> THEN "-" ELSE Head(call_stack).pc

\* An event loop (any of the three) delivers the first posted call.
Deliver ==
    /\ posted # <<>>
    /\ LET e == Head(posted)
           s0 == Collect([St EXCEPT !.posted = Tail(posted),
                                    !.hist = HistAdd(hist, e)])
       IN  Becomes(Collect(Exec(IF is_shutting_down THEN <<>>
                                ELSE HandlerOf(e, s0), s0, 0)))

\* activate_oracle_interaction (button or key '3').
Activate ==
    /\ UserInputAllowed
    /\ ~is_shutting_down
    /\ activate_hat_button
    /\ Becomes(Collect(Exec(
           ResetFlow \o <<O("activate_rest"),
                          Ret("activate", interaction_step,
                              questions_to_ask_this_session)>>,
           St, 0)))

\* start_recording_router (button or key '1').
StartRecording ==
    /\ UserInputAllowed
    /\ ~is_shutting_down
    /\ record_button
    /\ LET idle == interaction_step = 0 /\ current_oracle_state = "idle"
           s0 == [St EXCEPT !.hist = <<>>]
           r == Ret(IF idle THEN "record_idle" ELSE "record", interaction_step,
                    questions_to_ask_this_session)
       IN  Becomes(Collect(Exec(
               (IF idle THEN ResetFlow ELSE <<O("stop_all"), O("pe")>>)
               \o <<O("start_rec_common"), r>>, s0, 0)))

\* stop_audio_recording (button or key '2').
StopAudioRecording ==
    /\ UserInputAllowed
    /\ ~is_shutting_down
    /\ stop_button
    /\ LET s0 == [St EXCEPT !.hist = <<>>]
           s1 == IF isRunning(s0, recorder_worker)
                 THEN StopRecordingFlag(s0, recorder_worker)
                 ELSE s0
       IN  Becomes([s1 EXCEPT !.status_label = "other",
                              !.stop_button = FALSE,
                              !.record_button = TRUE,
                              !.activate_hat_button = TRUE,
                              !.ev = [NoEv EXCEPT !.h = "stop"]])

\* closeEvent (the user closes the window): the flag, the four workers
\* stopped with their slots set to None, processEvents(), in which every
\* posted call finds the flag set and returns, and the window closes.
CloseEvent ==
    /\ UserInputAllowed
    /\ ~is_shutting_down
    /\ LET s1 == [St EXCEPT !.is_shutting_down = TRUE, !.hist = <<>>]
           s2 == SafeStopWorker_and_clear(
                     SafeStopWorker_and_clear(
                         SafeStopWorker_and_clear(
                             SafeStopWorker_and_clear(s1, "narration"),
                             "capture"),
                         "transcription"),
                     "dialogue")
       IN  Becomes(Collect([s2 EXCEPT !.posted = <<>>,
                                      !.ev = [NoEv EXCEPT !.h = "close"]]))

\* The user closes the message box: _handle_ui_error goes on.
DismissBox ==
    /\ InLoop = "box"
    /\ LET s0 == [St EXCEPT !.call_stack = Tail(call_stack), !.hist = <<>>]
       IN  Becomes(Collect(Exec(Head(call_stack).k, s0, 0)))

\* processEvents() has nothing left to deliver and returns.
ReturnFromProcessEvents ==
    /\ InLoop = "pe"
    /\ posted = <<>>
    /\ \E rnd \in QuestionRange :
          LET s0 == [St EXCEPT !.call_stack = Tail(call_stack),
                               !.hist = <<>>]
          IN  Becomes(Collect(Exec(Head(call_stack).k, s0, rnd)))

\* ---------------------------------------------------------- worker threads
Running(w) == threads[w].st = "run"

\* AudioRecorderWorker.run, to the recording loop: recording = True, then
\* the device check, which reports an error and returns when it fails.
CaptureBegin(w) ==
    /\ Running(w) /\ threads[w].kind = "capture" /\ threads[w].pc = "start"
    /\ \E device_ok \in BOOLEAN :
          IF device_ok
          THEN Becomes([St EXCEPT !.threads[w].recording = TRUE,
                                  !.threads[w].pc = "loop"])
          ELSE Becomes(Collect(RunReturns(Emit(St, w, "error", "-", 0), w)))

\* AudioRecorderWorker.run after the loop: recording is False; with no
\* frames finished_signal(""), else the WAV file is written and reported.
CaptureFinish(w) ==
    /\ Running(w) /\ threads[w].kind = "capture" /\ threads[w].pc = "loop"
    /\ ~threads[w].recording
    /\ \E n \in 0..MaxFrames :
          Becomes(Collect(RunReturns(Emit(St, w, "finished", "-", n), w)))

\* AudioRecorderWorker.run: sd.PortAudioError or another exception.
CaptureFails(w) ==
    /\ Running(w) /\ threads[w].kind = "capture" /\ threads[w].pc = "loop"
    /\ Becomes(Collect(RunReturns(Emit(St, w, "error", "-", 0), w)))

\* What one recognize_google call can do.
Recognitions == {"text", "blank", "unknown", "request_error"}

\* SpeechToTextWorker.run: the result signals it emits, in order.
\* mode is stt_input_language_mode; first and second are the outcomes of
\* the recognition attempts (second is used by mode 3 only).
SttSignals(mode, file_ok, first, second) ==
    IF ~file_ok THEN <<[sig |-> "error", arg |-> "-"]>>
    ELSE IF mode \in {1, 2}
    THEN IF first \in {"text", "blank"}
         THEN <<[sig |-> "finished", arg |-> first]>>
         ELSE <<[sig |-> "error", arg |-> "-"]>>
    ELSE IF mode = 3
    THEN IF first = "text"
         THEN <<[sig |-> "finished", arg |-> "text"]>>
         ELSE IF second \in {"text", "blank"}
              THEN <<[sig |-> "finished", arg |-> second]>>
              ELSE <<[sig |-> "error", arg |-> "-"]>>
    ELSE <<[sig |-> "error", arg |-> "-"]>>

\* The languages SpeechToTextWorker.run passes to recognize_google, in
\* order ("en-US" is the primary, "cmn-Hans-CN" the secondary language).
SttAttempts(mode, file_ok, first, second) ==
    IF ~file_ok THEN <<>>
    ELSE IF mode = 1 THEN <<"en-US">>
    ELSE IF mode = 2 THEN <<"cmn-Hans-CN">>
    ELSE IF mode = 3
    THEN IF first = "text" THEN <<"en-US">> ELSE <<"en-US", "cmn-Hans-CN">>
    ELSE <<>>

\* What the DeepSeek request can do: a reply with text, or any of the
\* failures (no key, HTTP error, timeout, empty or malformed content).
Replies == {"text", "failure"}

\* DeepSeekWorker.run: the result signals it emits, in order.
DeepSeekSignals(reply) ==
    IF reply = "failure"
    THEN <<[sig |-> "error", arg |-> "-"]>>
    ELSE <<[sig |-> "finished", arg |-> reply]>>

RECURSIVE EmitAll(_, _, _)
EmitAll(s, w, sigs) ==
    IF sigs = <<>> THEN s
    ELSE EmitAll(Emit(s, w, Head(sigs).sig, Head(sigs).arg, 0), w, Tail(sigs))

\* SpeechToTextWorker.run.
TranscriptionRun(w) ==
    /\ Running(w) /\ threads[w].kind = "transcription"
    /\ \E sigs \in {SttSignals(mode, file_ok, first, second) :
                         mode \in 1..3, file_ok \in BOOLEAN,
                         first \in Recognitions, second \in Recognitions} :
          Becomes(Collect(RunReturns(EmitAll(St, w, sigs), w)))

\* DeepSeekWorker.run.
DialogueRun(w) ==
    /\ Running(w) /\ threads[w].kind = "dialogue"
    /\ \E reply \in Replies :
          Becomes(Collect(RunReturns(
              EmitAll(St, w, DeepSeekSignals(reply)), w)))

\* TextToSpeechWorker.run up to engine.say: text that is empty after
\* filtering, or a failed _initialize_engine, emit error_signal and go on
\* to emit finished_signal.
NarrationCannotSpeak(w) ==
    /\ Running(w) /\ threads[w].kind = "narration" /\ threads[w].pc = "start"
    /\ \E text_empty \in BOOLEAN, engine_ok \in BOOLEAN :
          /\ text_empty \/ ~engine_ok
          /\ Becomes([Emit(St, w, "error", "-", 0)
                         EXCEPT !.threads[w].pc = "finally"])

\* TextToSpeechWorker.run with text to say and an engine: say and
\* runAndWait end, and the finally block emits finished_signal.
NarrationSpoken(w) ==
    /\ Running(w) /\ threads[w].kind = "narration" /\ threads[w].pc = "start"
    /\ Becomes(Collect(RunReturns(Emit(St, w, "finished", "-", 0), w)))

\* TextToSpeechWorker.run: say or runAndWait raises; error_signal.
NarrationRaises(w) ==
    /\ Running(w) /\ threads[w].kind = "narration" /\ threads[w].pc = "start"
    /\ Becomes([Emit(St, w, "error", "-", 0) EXCEPT !.threads[w].pc = "finally"])

\* TextToSpeechWorker.run: finished_signal after an error_signal.
NarrationFinally(w) ==
    /\ Running(w) /\ threads[w].kind = "narration" /\ threads[w].pc = "finally"
    /\ Becomes(Collect(RunReturns(Emit(St, w, "finished", "-", 0), w)))

\* ---------------------------------------------------------- scene presenter
\* MediaPlayerHandler (media_handler.py) with its QMediaPlayer.  The player
\* emits playbackStateChanged inside play(), pause() and stop(), so the
\* handlers run re-entrantly inside the calls.

\* on_media_position_changed's "position <= 50": the positions 1..NearStart
\* stand for the first 50 ms.
NearStart == 1

\* QMediaPlayer.MediaStatus, in the order of the enumeration.
StatusRank(status) ==
    CASE status = "NoMedia" -> 0
      [] status = "LoadingMedia" -> 1
      [] status = "LoadedMedia" -> 2
      [] status = "BufferedMedia" -> 5
      [] status = "EndOfMedia" -> 6

\* The handler as constructed, before _setup_video_path (lines 20-30).
NewVideoHandler ==
    [video_load_successful |-> FALSE,
     is_initializing_first_frame |-> TRUE,
     is_video_reversing |-> FALSE,
     reverse_after_play_completes |-> FALSE,
     expect_tts_related_play |-> FALSE,
     playbackState |-> "Stopped",
     mediaStatus |-> "NoMedia",
     position |-> 0,
     playbackRate |-> 1,
     loops |-> 1,
     rate_supported |-> FALSE,  \* the engine accepts setPlaybackRate(-1.0)
     last |-> "init",           \* history: the last call or engine event
     from |-> "Initializing",   \* history: the state it arrived in
     step_emits |-> 0,          \* history: cycle-complete signals of it
     cycle_emits |-> 0,         \* history: the same since play_for_tts
     was_reversing |-> FALSE,   \* history: reversed since play_for_tts
     phase |-> "init"]          \* history: how far the narration cycle is

Saturate(n) == IF n < MaxEmits THEN n + 1 ELSE MaxEmits

\* video_cycle_complete_signal.emit()
EmitCycleComplete(v) ==
    [v EXCEPT !.step_emits = Saturate(@), !.cycle_emits = Saturate(@)]

RECURSIVE play(_), pause(_), stop(_), set_to_frozen_state(_)
RECURSIVE on_playback_state_changed(_, _), on_media_status_changed(_, _)

\* QMediaPlayer.play(): nothing without loaded media or when playing.
play(v) ==
    IF StatusRank(v.mediaStatus) < 2 \/ v.playbackState = "Playing"
    THEN v
    ELSE on_playback_state_changed(
             [v EXCEPT !.playbackState = "Playing",
                       !.mediaStatus = "BufferedMedia"], "Playing")

\* QMediaPlayer.pause()
pause(v) ==
    IF StatusRank(v.mediaStatus) < 2 \/ v.playbackState = "Paused"
    THEN v
    ELSE on_playback_state_changed([v EXCEPT !.playbackState = "Paused"],
                                   "Paused")

\* QMediaPlayer.stop(): stopped, at the start, media loaded.
stop(v) ==
    IF v.playbackState = "Stopped"
    THEN v
    ELSE on_media_status_changed(
             on_playback_state_changed(
                 [v EXCEPT !.playbackState = "Stopped",
                           !.position = 0,
                           !.mediaStatus = "LoadedMedia"], "Stopped"),
             "LoadedMedia")

set_to_frozen_state(v) ==
    IF ~v.video_load_successful
    THEN EmitCycleComplete(v)
    ELSE LET v1 == [v EXCEPT !.loops = 1, !.playbackRate = 1,
                             !.expect_tts_related_play = FALSE]
             v2 == IF v1.playbackState = "Playing" THEN stop(v1) ELSE v1
             v3 == [v2 EXCEPT !.position = 0]
         IN  IF \/ v3.playbackState = "Stopped"
                \/ v3.playbackState = "Paused" /\ v3.position # 0
             THEN play([v3 EXCEPT !.is_initializing_first_frame = TRUE])
             ELSE IF v3.playbackState = "Paused" /\ v3.position = 0
             THEN EmitCycleComplete(
                      [v3 EXCEPT !.is_initializing_first_frame = FALSE,
                                 !.is_video_reversing = FALSE,
                                 !.reverse_after_play_completes = FALSE])
             ELSE play([v3 EXCEPT !.is_initializing_first_frame = TRUE])

\* on_playback_state_changed whose first branch pauses without emitting
\* cycle-complete.
on_playback_state_changed_unannounced(v, state) ==
    IF v.is_initializing_first_frame /\ state = "Playing"
    THEN [pause(v) EXCEPT !.is_initializing_first_frame = FALSE,
                          !.is_video_reversing = FALSE,
                          !.reverse_after_play_completes = FALSE,
                          !.expect_tts_related_play = FALSE]
    ELSE IF v.is_video_reversing /\ state = "Paused"
    THEN set_to_frozen_state(
             [v EXCEPT !.is_video_reversing = FALSE,
                       !.reverse_after_play_completes = FALSE])
    ELSE IF state = "Stopped"
    THEN IF v.is_video_reversing
         THEN set_to_frozen_state(
                  [v EXCEPT !.is_video_reversing = FALSE,
                            !.reverse_after_play_completes = FALSE])
         ELSE IF /\ v.is_initializing_first_frame
                 /\ StatusRank(v.mediaStatus) >= 2
         THEN play(v)
         ELSE v
    ELSE IF /\ ~v.is_initializing_first_frame
            /\ ~v.is_video_reversing
            /\ ~v.reverse_after_play_completes
            /\ ~v.expect_tts_related_play
            /\ state = "Playing"
    THEN pause(v)
    ELSE v

on_playback_state_changed(v, state) ==
    IF v.is_initializing_first_frame /\ state = "Playing"
    THEN LET v1 == pause(v)
         IN  EmitCycleComplete(
                 [v1 EXCEPT !.is_initializing_first_frame = FALSE,
                            !.is_video_reversing = FALSE,
                            !.reverse_after_play_completes = FALSE,
                            !.expect_tts_related_play = FALSE])
    ELSE IF v.is_video_reversing /\ state = "Paused"
    THEN set_to_frozen_state(
             [v EXCEPT !.is_video_reversing = FALSE,
                       !.reverse_after_play_completes = FALSE])
    ELSE IF state = "Stopped"
    THEN IF v.is_video_reversing
         THEN set_to_frozen_state(
                  [v EXCEPT !.is_video_reversing = FALSE,
                            !.reverse_after_play_completes = FALSE])
         ELSE IF /\ v.is_initializing_first_frame
                 /\ StatusRank(v.mediaStatus) >= 2
         THEN play(v)
         ELSE v
    ELSE IF /\ ~v.is_initializing_first_frame
            /\ ~v.is_video_reversing
            /\ ~v.reverse_after_play_completes
            /\ ~v.expect_tts_related_play
            /\ state = "Playing"
    THEN pause(v)
    ELSE v

\* on_media_status_changed that reverses without looking at the rate the
\* player reports after setPlaybackRate(-1.0).
on_media_status_changed_unchecked(v, status) ==
    IF status = "LoadedMedia" /\ v.is_initializing_first_frame
    THEN IF v.playbackState = "Stopped"
         THEN play([v EXCEPT !.position = 0])
         ELSE v
    ELSE IF status = "EndOfMedia"
    THEN IF v.reverse_after_play_completes /\ ~v.is_video_reversing
         THEN play([pause(v) EXCEPT !.is_video_reversing = TRUE,
                                    !.was_reversing = TRUE])
         ELSE IF v.is_video_reversing
         THEN pause(v)
         ELSE IF v.playbackState # "Paused" \/ v.position # 0
         THEN set_to_frozen_state(v)
         ELSE v
    ELSE v

on_media_status_changed(v, status) ==
    IF status = "LoadedMedia" /\ v.is_initializing_first_frame
    THEN IF v.playbackState = "Stopped"
         THEN play([v EXCEPT !.position = 0])
         ELSE v
    ELSE IF status = "EndOfMedia"
    THEN IF v.reverse_after_play_completes /\ ~v.is_video_reversing
         THEN LET v1 == pause(v)
              IN  IF v1.rate_supported
                  THEN play([v1 EXCEPT !.playbackRate = -1,
                                       !.is_video_reversing = TRUE,
                                       !.was_reversing = TRUE])
                  ELSE set_to_frozen_state(
                           [v1 EXCEPT !.is_video_reversing = FALSE,
                                      !.reverse_after_play_completes = FALSE])
         ELSE IF v.is_video_reversing
         THEN pause(v)
         ELSE IF v.playbackState # "Paused" \/ v.position # 0
         THEN set_to_frozen_state(v)
         ELSE v
    ELSE IF /\ status = "BufferedMedia"
            /\ v.is_initializing_first_frame
            /\ v.playbackState = "Stopped"
    THEN play([v EXCEPT !.position = 0])
    ELSE v

\* on_media_position_changed that never pauses.
on_media_position_changed_ignored(v, position) == v

on_media_position_changed(v, position) ==
    IF v.is_video_reversing /\ v.playbackRate < 0 /\ position <= NearStart
    THEN pause(v)
    ELSE v

on_media_error(v) ==
    LET v1 == [v EXCEPT !.expect_tts_related_play = FALSE]
        v2 == IF v1.is_initializing_first_frame
              THEN EmitCycleComplete(
                       [v1 EXCEPT !.is_initializing_first_frame = FALSE])
              ELSE v1
    IN  IF v2.reverse_after_play_completes \/ v2.is_video_reversing
        THEN set_to_frozen_state(
                 [v2 EXCEPT !.reverse_after_play_completes = FALSE,
                            !.is_video_reversing = FALSE])
        ELSE v2

\* play_for_tts without the check that the video was loaded.
play_for_tts_unguarded(v) ==
    play([v EXCEPT !.is_initializing_first_frame = FALSE,
                   !.reverse_after_play_completes = FALSE,
                   !.is_video_reversing = FALSE,
                   !.expect_tts_related_play = TRUE,
                   !.loops = 1,
                   !.playbackRate = 1,
                   !.position = 0])

play_for_tts(v) ==
    IF ~v.video_load_successful
    THEN v
    ELSE play([v EXCEPT !.is_initializing_first_frame = FALSE,
                        !.reverse_after_play_completes = FALSE,
                        !.is_video_reversing = FALSE,
                        !.expect_tts_related_play = TRUE,
                        !.loops = 1,
                        !.playbackRate = 1,
                        !.position = 0])

\* tts_audio_has_finished that does not record the reverse request.
tts_audio_has_finished_unrecorded(v) ==
    IF ~v.video_load_successful
    THEN EmitCycleComplete(v)
    ELSE LET v1 == [v EXCEPT !.expect_tts_related_play = FALSE]
         IN  IF \/ v1.mediaStatus = "EndOfMedia"
                \/ v1.playbackState # "Playing" /\ v1.position >= Dur
             THEN on_media_status_changed(v1, "EndOfMedia")
             ELSE IF v1.playbackState = "Playing"
             THEN v1
             ELSE set_to_frozen_state(v1)

\* MediaPlayerHandler.tts_audio_has_finished; the position is "near the
\* end" (within end_margin of the duration) when it is Dur.
video_tts_audio_has_finished(v) ==
    IF ~v.video_load_successful
    THEN EmitCycleComplete(v)
    ELSE LET v1 == [v EXCEPT !.expect_tts_related_play = FALSE,
                             !.reverse_after_play_completes = TRUE]
         IN  IF \/ v1.mediaStatus = "EndOfMedia"
                \/ v1.playbackState # "Playing" /\ v1.position >= Dur
             THEN on_media_status_changed(v1, "EndOfMedia")
             ELSE IF v1.playbackState = "Playing"
             THEN v1
             ELSE set_to_frozen_state(
                      [v1 EXCEPT !.reverse_after_play_completes = FALSE])

stop_all_media_activity(v) ==
    stop([v EXCEPT !.is_initializing_first_frame = FALSE,
                   !.is_video_reversing = FALSE,
                   !.reverse_after_play_completes = FALSE,
                   !.expect_tts_related_play = FALSE])

\* Frozen: paused on the first frame with no transition under way.
Frozen(v) ==
    /\ v.playbackState = "Paused"
    /\ v.position = 0
    /\ ~v.is_initializing_first_frame
    /\ ~v.is_video_reversing
    /\ ~v.reverse_after_play_completes

\* The states of the presenter, by its flags and its player.
StateOf(v) ==
    CASE ~v.video_load_successful -> "Disabled"
      [] v.is_initializing_first_frame -> "Initializing"
      [] v.is_video_reversing -> "Reversing"
      [] v.reverse_after_play_completes -> "AwaitingReverseTrigger"
      [] v.expect_tts_related_play /\ v.playbackState = "Playing" ->
            "PlayingForward"
      [] Frozen(v) -> "Frozen"
      [] OTHER -> "Other"

\* One call or engine event: history is restarted for the step.
Begin(v, name, phase) ==
    [v EXCEPT !.last = name, !.from = StateOf(v), !.step_emits = 0,
              !.phase = phase]

PlayForTts ==
    /\ video_handler' =
          play_for_tts(
              [Begin(video_handler, "play_for_tts",
                     IF Frozen(video_handler) THEN "forward" ELSE "other")
                 EXCEPT !.cycle_emits = 0, !.was_reversing = FALSE])
    /\ UNCHANGED <<app_vars, stt_run, stop_call, deepseek_request,
                 animation_handler, worker_run>>

TtsAudioHasFinished ==
    /\ video_handler' =
          video_tts_audio_has_finished(
              Begin(video_handler, "tts_audio_has_finished",
                    IF /\ video_handler.phase = "forward"
                       /\ video_handler.playbackState = "Playing"
                    THEN "awaiting"
                    ELSE IF video_handler.phase = "clip_ended"
                    THEN "late" ELSE "other"))
    /\ UNCHANGED <<app_vars, stt_run, stop_call, deepseek_request,
                 animation_handler, worker_run>>

SetToFrozenState ==
    /\ video_handler' =
          set_to_frozen_state(
              Begin(video_handler, "set_to_frozen_state", "other"))
    /\ UNCHANGED <<app_vars, stt_run, stop_call, deepseek_request,
                 animation_handler, worker_run>>

StopAllMediaActivity ==
    /\ video_handler' =
          stop_all_media_activity(
              Begin(video_handler, "stop_all_media_activity", "other"))
    /\ UNCHANGED <<app_vars, stt_run, stop_call, deepseek_request,
                 animation_handler, worker_run>>

\* The engine has loaded the source.
MediaLoaded ==
    /\ video_handler.mediaStatus = "LoadingMedia"
    /\ video_handler' =
          on_media_status_changed(
              [Begin(video_handler, "loaded", video_handler.phase)
                 EXCEPT !.mediaStatus = "LoadedMedia"], "LoadedMedia")
    /\ UNCHANGED <<app_vars, stt_run, stop_call, deepseek_request,
                 animation_handler, worker_run>>

\* Forward playback advances; the position is reported.
PlaybackAdvances ==
    /\ video_handler.playbackState = "Playing"
    /\ video_handler.playbackRate > 0
    /\ video_handler.position < Dur
    /\ \E p \in (video_handler.position + 1)..Dur :
          video_handler' =
              on_media_position_changed(
                  [Begin(video_handler, "position", video_handler.phase)
                     EXCEPT !.position = p], p)
    /\ UNCHANGED <<app_vars, stt_run, stop_call, deepseek_request,
                 animation_handler, worker_run>>

\* Forward playback reaches the end of the clip: the player stops and
\* reports EndOfMedia.
EndOfMedia ==
    /\ video_handler.playbackState = "Playing"
    /\ video_handler.playbackRate > 0
    /\ video_handler.position = Dur
    /\ video_handler' =
          on_media_status_changed(
              on_playback_state_changed(
                  [Begin(video_handler, "end_of_media",
                         IF video_handler.phase = "awaiting"
                         THEN "ended"
                         ELSE IF video_handler.phase = "forward"
                         THEN "clip_ended" ELSE "other")
                     EXCEPT !.playbackState = "Stopped",
                            !.mediaStatus = "EndOfMedia"],
                  "Stopped"),
              "EndOfMedia")
    /\ UNCHANGED <<app_vars, stt_run, stop_call, deepseek_request,
                 animation_handler, worker_run>>

\* Reverse playback moves towards the start; the position is reported.
PlaybackReverses ==
    /\ video_handler.playbackState = "Playing"
    /\ video_handler.playbackRate < 0
    /\ video_handler.position > 0
    /\ \E p \in 0..(video_handler.position - 1) :
          video_handler' =
              on_media_position_changed(
                  [Begin(video_handler, "position", video_handler.phase)
                     EXCEPT !.position = p], p)
    /\ UNCHANGED <<app_vars, stt_run, stop_call, deepseek_request,
                 animation_handler, worker_run>>

\* QMediaPlayer.errorOccurred, in any state of a loaded player.
MediaError ==
    /\ video_handler.video_load_successful
    /\ video_handler' =
          on_media_error(Begin(video_handler, "error", "other"))
    /\ UNCHANGED <<app_vars, stt_run, stop_call, deepseek_request,
                 animation_handler, worker_run>>

\* After MediaPlayerHandler.__init__: the file is missing (cycle-complete
\* from _setup_video_path and from __init__), or it was found and
\* set_to_frozen_state has called play(), which a player still loading the
\* source ignores and a player that has it answers with playing.
InitVideo ==
    \E found, loaded, reverse_ok \in BOOLEAN :
        video_handler =
            IF ~found
            THEN EmitCycleComplete(EmitCycleComplete(NewVideoHandler))
            ELSE set_to_frozen_state(
                     [NewVideoHandler EXCEPT
                          !.video_load_successful = TRUE,
                          !.rate_supported = reverse_ok,
                          !.mediaStatus = IF loaded THEN "LoadedMedia"
                                          ELSE "LoadingMedia"])

\* ------------------------------------------------------ AnimationHandler
\* How loading a GIF ended: a movie that is ready, a QMovie object whose
\* size cannot be determined (kept, not ready), or no movie (file missing
\* or invalid).
LoadOutcomes == {"ok", "no_size", "none"}
Movies == {"speaking", "thinking"}

\* After AnimationHandler.__init__ (_load_movie_data).
NewAnimationHandler(speaking, thinking) ==
    [speaking_movie |-> speaking # "none",
     thinking_movie |-> thinking # "none",
     speaking_gif_load_successful |-> speaking = "ok",
     thinking_gif_load_successful |-> thinking = "ok",
     active_movie |-> "none",
     speaking_state |-> "NotRunning",      \* speaking_movie.state()
     thinking_state |-> "NotRunning",      \* thinking_movie.state()
     completions |-> 0,     \* history: cycle-complete signals (saturates)
     errors |-> 0,          \* history: error signals (saturates)
     switched |-> FALSE,    \* history: the last call stopped the movie that
                            \* was active to make another one active
     last |-> "init"]       \* history: the last call

\* QMovie.state() of a movie.
MovieState(h, movie) ==
    IF movie = "speaking" THEN h.speaking_state ELSE h.thinking_state

\* QMovie.start() and QMovie.stop().
MovieStart(h, movie) ==
    IF movie = "speaking" THEN [h EXCEPT !.speaking_state = "Running"]
    ELSE [h EXCEPT !.thinking_state = "Running"]

MovieStop(h, movie) ==
    IF movie = "speaking" THEN [h EXCEPT !.speaking_state = "NotRunning"]
    ELSE [h EXCEPT !.thinking_state = "NotRunning"]

is_ready_to_display(h, movie_type) ==
    IF movie_type = "speaking"
    THEN h.speaking_gif_load_successful /\ h.speaking_movie
    ELSE IF movie_type = "thinking"
    THEN h.thinking_gif_load_successful /\ h.thinking_movie
    ELSE FALSE

emit_completion(h) == [h EXCEPT !.completions = Saturate(@)]

emit_error_and_complete(h) ==
    emit_completion([h EXCEPT !.errors = Saturate(@)])

\* A switch that leaves the movie shown before as it is.
set_active_movie_unstopped(h, movie) == [h EXCEPT !.active_movie = movie]

\* _set_active_movie.
set_active_movie(h, movie) ==
    LET stops == /\ h.active_movie # "none"
                 /\ h.active_movie # movie
                 /\ MovieState(h, h.active_movie) = "Running"
        h1 == IF stops
              THEN [MovieStop(h, h.active_movie) EXCEPT !.switched = TRUE]
              ELSE h
    IN  [h1 EXCEPT !.active_movie = movie]

set_speaking_animation_active(h) ==
    IF ~is_ready_to_display(h, "speaking")
    THEN emit_error_and_complete(h)
    ELSE LET h1 == set_active_movie(h, "speaking")
         IN  IF h1.speaking_state # "Running"
             THEN MovieStart(h1, "speaking")
             ELSE h1

set_speaking_animation_frozen(h) ==
    IF ~is_ready_to_display(h, "speaking")
    THEN emit_error_and_complete(h)
    ELSE LET h1 == set_active_movie(h, "speaking")
         IN  emit_completion(IF h1.speaking_state = "Running"
                             THEN MovieStop(h1, "speaking")
                             ELSE h1)

set_thinking_animation(h, loop) ==
    IF ~is_ready_to_display(h, "thinking")
    THEN IF is_ready_to_display(h, "speaking")
         THEN set_speaking_animation_frozen(h)
         ELSE emit_error_and_complete(h)
    ELSE LET h1 == set_active_movie(h, "thinking")
         IN  emit_completion(
                 IF loop
                 THEN IF h1.thinking_state # "Running"
                      THEN MovieStart(h1, "thinking")
                      ELSE h1
                 ELSE IF h1.thinking_state = "Running"
                      THEN MovieStop(h1, "thinking")
                      ELSE h1)

setup_initial_display(h) ==
    IF is_ready_to_display(h, "thinking")
    THEN set_thinking_animation(h, TRUE)
    ELSE IF is_ready_to_display(h, "speaking")
    THEN set_speaking_animation_frozen(h)
    ELSE emit_error_and_complete(h)

\* AnimationHandler.tts_audio_has_finished.
animation_tts_audio_has_finished(h) ==
    IF is_ready_to_display(h, "speaking") /\ h.speaking_state = "Running"
    THEN MovieStop(h, "speaking")
    ELSE h

\* A call begins: the history of the call before is dropped.
BeginCall(h, name) == [h EXCEPT !.switched = FALSE, !.last = name]

SetupInitialDisplay ==
    /\ animation_handler.last = "init"
    /\ animation_handler' =
          setup_initial_display(
              BeginCall(animation_handler, "setup_initial_display"))
    /\ UNCHANGED <<app_vars, video_handler, stt_run, stop_call,
                   deepseek_request, worker_run>>

SetSpeakingActive ==
    /\ animation_handler.last # "init"
    /\ animation_handler' =
          set_speaking_animation_active(
              BeginCall(animation_handler, "set_speaking_animation_active"))
    /\ UNCHANGED <<app_vars, video_handler, stt_run, stop_call,
                   deepseek_request, worker_run>>

SetThinking ==
    /\ animation_handler.last # "init"
    /\ \E loop \in BOOLEAN :
          animation_handler' =
              set_thinking_animation(
                  BeginCall(animation_handler, "set_thinking_animation"),
                  loop)
    /\ UNCHANGED <<app_vars, video_handler, stt_run, stop_call,
                   deepseek_request, worker_run>>

NarrationAudioFinished ==
    /\ animation_handler.last # "init"
    /\ animation_handler' =
          animation_tts_audio_has_finished(
              BeginCall(animation_handler, "tts_audio_has_finished"))
    /\ UNCHANGED <<app_vars, video_handler, stt_run, stop_call,
                   deepseek_request, worker_run>>

\* A running GIF that does not loop for ever plays its last frame.
MovieFinishes ==
    /\ \E movie \in Movies :
          /\ MovieState(animation_handler, movie) = "Running"
          /\ animation_handler' =
                MovieStop(BeginCall(animation_handler, "finished"), movie)
    /\ UNCHANGED <<app_vars, video_handler, stt_run, stop_call,
                   deepseek_request, worker_run>>

\* The handler of another component's specification: as constructed, both
\* GIFs loaded.
NoAnimation == animation_handler = NewAnimationHandler("ok", "ok")

\* ------------------------------------------------- one worker run, in steps
\* AudioRecorderWorker.run and TextToSpeechWorker.run statement by
\* statement, with the main thread's stop_recording / stop_tts_signal
\* arriving between any two of them.

\* The characters of a text to speak, by what _filter_text_for_tts does
\* with them: a word character, a kept punctuation mark, white space, an
\* asterisk, an em dash, any other symbol.
CharClasses == {"w", "p", "s", "star", "dash", "x"}
MaxText == 2
Texts == UNION {[1..n -> CharClasses] : n \in 0..MaxText}

RECURSIVE ReplaceDash(_), RemoveChars(_, _), CollapseSpace(_)
\* text.replace("—", ", ")
ReplaceDash(text) ==
    IF text = <<>> THEN <<>>
    ELSE (IF Head(text) = "dash" THEN <<"p", "s">> ELSE <<Head(text)>>)
         \o ReplaceDash(Tail(text))

\* replace("*", "") and re.sub of every character outside the kept set
RemoveChars(text, removed) ==
    IF text = <<>> THEN <<>>
    ELSE (IF Head(text) \in removed THEN <<>> ELSE <<Head(text)>>)
         \o RemoveChars(Tail(text), removed)

\* re.sub(r'\s+', ' ', text)
CollapseSpace(text) ==
    IF Len(text) < 2 THEN text
    ELSE IF text[1] = "s" /\ text[2] = "s" THEN CollapseSpace(Tail(text))
    ELSE <<Head(text)>> \o CollapseSpace(Tail(text))

\* str.strip() of a text whose white space is collapsed
Strip(text) ==
    LET a == IF text # <<>> /\ Head(text) = "s" THEN Tail(text) ELSE text
    IN  IF a # <<>> /\ a[Len(a)] = "s" THEN SubSeq(a, 1, Len(a) - 1) ELSE a

filter_text_for_tts(text) ==
    Strip(CollapseSpace(
        RemoveChars(RemoveChars(ReplaceDash(text), {"star"}),
                    CharClasses \ {"w", "s", "p"})))

NewAudioRun ==
    [kind |-> "capture", pc |-> "start",
     recording |-> FALSE,       \* self.recording
     frames |-> 0,              \* len(self.frames)
     stop_calls |-> 0,          \* history: stop_recording() calls
     left_loop |-> FALSE,       \* history: the recording loop has ended
     raised |-> FALSE,          \* history: run() caught an exception
     emitted |-> <<>>]          \* history: result signals emitted, in order

NewTtsRun(text) ==
    [kind |-> "narration", pc |-> "start",
     raw_text_to_speak |-> text,
     text_to_speak |-> <<>>,
     should_stop |-> FALSE,     \* self._should_stop
     engine |-> FALSE,          \* engine set and initialized successfully
     speaking |-> FALSE,        \* the engine is synthesising speech
     said_after_stop |-> FALSE, \* history: say() came after stop_tts_signal
     emitted |-> <<>>]

EmitResult(r, sig, arg) ==
    [r EXCEPT !.emitted = Append(@, [sig |-> sig, arg |-> arg])]

\* A run that reports an empty recording as an error.
after_recording_loop_error(r, write_ok) ==
    [EmitResult(r, "error", "-") EXCEPT !.pc = "done"]

\* AudioRecorderWorker.run after the recording loop.
after_recording_loop(r, write_ok) ==
    IF r.frames = 0
    THEN [EmitResult(r, "finished", "") EXCEPT !.pc = "done"]
    ELSE IF write_ok
    THEN [EmitResult(r, "finished", "file") EXCEPT !.pc = "done"]
    ELSE [EmitResult(r, "error", "-") EXCEPT !.pc = "done", !.raised = TRUE]

\* AudioRecorderWorker.run: recording = True and the device check.
AudioRunBegins ==
    /\ worker_run.kind = "capture" /\ worker_run.pc = "start"
    /\ \E device_ok \in BOOLEAN :
          worker_run' =
              IF device_ok
              THEN [worker_run EXCEPT !.recording = TRUE, !.pc = "loop"]
              ELSE [EmitResult(worker_run, "error", "-")
                       EXCEPT !.recording = TRUE, !.pc = "done"]
    /\ UNCHANGED <<app_vars, video_handler, stt_run, stop_call,
                   deepseek_request, animation_handler>>

\* _callback: a block of audio while recording.
AudioCallback ==
    /\ worker_run.kind = "capture" /\ worker_run.pc = "loop"
    /\ worker_run.recording
    /\ worker_run.frames < MaxFrames
    /\ worker_run' = [worker_run EXCEPT !.frames = @ + 1]
    /\ UNCHANGED <<app_vars, video_handler, stt_run, stop_call,
                   deepseek_request, animation_handler>>

\* stop_recording(), called by the main thread.
AudioStopRecording ==
    /\ worker_run.kind = "capture" /\ worker_run.pc # "done"
    /\ worker_run.stop_calls < 2
    /\ worker_run' = [worker_run EXCEPT !.recording = FALSE,
                                        !.stop_calls = @ + 1]
    /\ UNCHANGED <<app_vars, video_handler, stt_run, stop_call,
                   deepseek_request, animation_handler>>

\* The loop "while self.recording" ends and run() reports.
AudioLoopExits ==
    /\ worker_run.kind = "capture" /\ worker_run.pc = "loop"
    /\ ~worker_run.recording
    /\ \E write_ok \in BOOLEAN :
          worker_run' =
              after_recording_loop([worker_run EXCEPT !.left_loop = TRUE],
                                   write_ok)
    /\ UNCHANGED <<app_vars, video_handler, stt_run, stop_call,
                   deepseek_request, animation_handler>>

\* sd.PortAudioError or another exception from the input stream.
AudioRaises ==
    /\ worker_run.kind = "capture" /\ worker_run.pc = "loop"
    /\ worker_run' = [EmitResult(worker_run, "error", "-")
                         EXCEPT !.pc = "done", !.raised = TRUE]
    /\ UNCHANGED <<app_vars, video_handler, stt_run, stop_call,
                   deepseek_request, animation_handler>>

\* TextToSpeechWorker.run: the filter and the test for empty text.
TtsFilters ==
    /\ worker_run.kind = "narration" /\ worker_run.pc = "start"
    /\ LET text == filter_text_for_tts(worker_run.raw_text_to_speak)
           r == [worker_run EXCEPT !.text_to_speak = text]
       IN  worker_run' =
               IF text = <<>>
               THEN [EmitResult(EmitResult(r, "error", "-"), "finished", "-")
                        EXCEPT !.pc = "done"]
               ELSE [r EXCEPT !.pc = "init"]
    /\ UNCHANGED <<app_vars, video_handler, stt_run, stop_call,
                   deepseek_request, animation_handler>>

\* _initialize_engine, and the return of run() when it fails.
TtsInitializesEngine ==
    /\ worker_run.kind = "narration" /\ worker_run.pc = "init"
    /\ \E engine_ok \in BOOLEAN :
          worker_run' =
              IF engine_ok
              THEN [worker_run EXCEPT !.engine = TRUE, !.pc = "check"]
              ELSE [EmitResult(EmitResult(worker_run, "error", "-"),
                               "finished", "-") EXCEPT !.pc = "done"]
    /\ UNCHANGED <<app_vars, video_handler, stt_run, stop_call,
                   deepseek_request, animation_handler>>

\* "if self._should_stop" before engine.say.
TtsChecksStop ==
    /\ worker_run.kind = "narration" /\ worker_run.pc = "check"
    /\ worker_run' = [worker_run EXCEPT
                         !.pc = IF worker_run.should_stop THEN "finally"
                                ELSE "say"]
    /\ UNCHANGED <<app_vars, video_handler, stt_run, stop_call,
                   deepseek_request, animation_handler>>

\* engine.say(text) and the start of engine.runAndWait(): synthesis begins.
TtsSays ==
    /\ worker_run.kind = "narration" /\ worker_run.pc = "say"
    /\ worker_run' = [worker_run EXCEPT
                         !.speaking = TRUE,
                         !.said_after_stop = worker_run.should_stop,
                         !.pc = "wait"]
    /\ UNCHANGED <<app_vars, video_handler, stt_run, stop_call,
                   deepseek_request, animation_handler>>

\* engine.runAndWait() returns or raises.
TtsRunAndWaitEnds ==
    /\ worker_run.kind = "narration" /\ worker_run.pc = "wait"
    /\ \E raises \in BOOLEAN :
          LET r == [worker_run EXCEPT !.speaking = FALSE, !.pc = "finally"]
          IN  worker_run' = IF raises THEN EmitResult(r, "error", "-") ELSE r
    /\ UNCHANGED <<app_vars, video_handler, stt_run, stop_call,
                   deepseek_request, animation_handler>>

\* The finally block: finished_signal.
TtsFinally ==
    /\ worker_run.kind = "narration" /\ worker_run.pc = "finally"
    /\ worker_run' = [EmitResult(worker_run, "finished", "-")
                         EXCEPT !.pc = "done"]
    /\ UNCHANGED <<app_vars, video_handler, stt_run, stop_call,
                   deepseek_request, animation_handler>>

\* stop_tts_signal(), called by the main thread: the flag, and engine.stop()
\* when the engine exists, which ends the utterance being spoken.
TtsStopSignal ==
    /\ worker_run.kind = "narration" /\ worker_run.pc # "done"
    /\ ~worker_run.should_stop
    /\ worker_run' = [worker_run EXCEPT
                         !.should_stop = TRUE,
                         !.speaking = IF worker_run.engine THEN FALSE ELSE @]
    /\ UNCHANGED <<app_vars, video_handler, stt_run, stop_call,
                   deepseek_request, animation_handler>>

\* No worker run is looked at on its own.
NoWorkerRun == worker_run = [kind |-> "none"]

\* ------------------------------------------------------------ specification
\* The state after SortingHatApp.__init__ and complete_initial_setup.
InitSession ==
    /\ interaction_step = 0
    /\ questions_to_ask_this_session \in QuestionRange
    /\ current_oracle_state = "idle"
    /\ is_shutting_down = FALSE
    /\ record_button = TRUE
    /\ stop_button = FALSE
    /\ activate_hat_button = TRUE
    /\ recorder_worker = 0
    /\ stt_worker = 0
    /\ deepseek_worker = 0
    /\ tts_worker = 0
    /\ threads = [w \in Ids |-> FreeThread]
    /\ posted = <<>>
    /\ call_stack = <<>>
    /\ hist = <<>>
    /\ resets = 0
    /\ ev = NoEv
    /\ run_end = NoRunEnd
    /\ status_label = "waiting"
    /\ just_sorted_flag = FALSE

\* sorting_hat_app.py creates no MediaPlayerHandler: the handler stays as
\* constructed.
NoScene == video_handler = NewVideoHandler

\* No transcription run and no stop call is looked at on its own.
NoSttRun ==
    stt_run = [pc |-> "none", mode |-> 1, file_ok |-> TRUE, first |-> "text",
               second |-> "text", attempts |-> <<>>, signals |-> <<>>]

NoStopCall ==
    stop_call = [pc |-> "none"]

\* No dialogue request is looked at on its own.
NoDeepSeekRequest ==
    deepseek_request = [pc |-> "none"]

\* Both GIFs are present and valid.
Init ==
    /\ InitSession
    /\ NoScene
    /\ NoSttRun
    /\ NoStopCall
    /\ NoDeepSeekRequest
    /\ NoAnimation
    /\ NoWorkerRun
    /\ speaking_gif_load_successful = TRUE
    /\ thinking_gif_load_successful = TRUE

Next ==
    \/ Deliver
    \/ Activate
    \/ StartRecording
    \/ StopAudioRecording
    \/ DismissBox
    \/ ReturnFromProcessEvents
    \/ \E w \in Ids : CaptureBegin(w)
    \/ \E w \in Ids : CaptureFinish(w)
    \/ \E w \in Ids : CaptureFails(w)
    \/ \E w \in Ids : TranscriptionRun(w)
    \/ \E w \in Ids : DialogueRun(w)
    \/ \E w \in Ids : NarrationCannotSpeak(w)
    \/ \E w \in Ids : NarrationSpoken(w)
    \/ \E w \in Ids : NarrationRaises(w)
    \/ \E w \in Ids : NarrationFinally(w)

Spec == Init /\ [][Next]_vars

\* The thinking GIF is missing or invalid; the speaking GIF is loaded or
\* not.  With neither, the constructor's _reset_interaction_flow_and_ui
\* (line 78) is inside _handle_ui_error's message box: set_thinking_animation
\* emitted the error signal and has its cycle-complete signal still to emit.
InitAssets ==
    /\ thinking_gif_load_successful = FALSE
    /\ speaking_gif_load_successful \in BOOLEAN
    /\ interaction_step = 0
    /\ questions_to_ask_this_session \in QuestionRange
    /\ current_oracle_state = "idle"
    /\ is_shutting_down = FALSE
    /\ record_button = TRUE
    /\ stop_button = FALSE
    /\ activate_hat_button = TRUE
    /\ recorder_worker = 0
    /\ stt_worker = 0
    /\ deepseek_worker = 0
    /\ tts_worker = 0
    /\ threads = [w \in Ids |-> FreeThread]
    /\ posted = <<>>
    /\ call_stack = IF speaking_gif_load_successful
                    THEN <<>>
                    ELSE <<Frame("box", Tail(HandleUiError)
                                        \o <<O("anim_completed")>>)>>
    /\ hist = <<>>
    /\ resets = 0
    /\ ev = NoEv
    /\ run_end = NoRunEnd
    /\ status_label = IF speaking_gif_load_successful THEN "waiting"
                      ELSE "other"
    /\ just_sorted_flag = FALSE
    /\ NoScene
    /\ NoSttRun
    /\ NoStopCall
    /\ NoDeepSeekRequest
    /\ NoAnimation
    /\ NoWorkerRun

SpecAssets == InitAssets /\ [][Next]_vars

\* The speaking GIF is missing or invalid, the thinking GIF is loaded: the
\* constructor's setup_initial_display shows the thinking GIF.
InitSpeakingMissing ==
    /\ InitSession
    /\ NoScene
    /\ NoSttRun
    /\ NoStopCall
    /\ NoDeepSeekRequest
    /\ NoAnimation
    /\ NoWorkerRun
    /\ speaking_gif_load_successful = FALSE
    /\ thinking_gif_load_successful = TRUE

SpecSpeakingMissing == InitSpeakingMissing /\ [][Next]_vars

\* The animation handler alone, with every outcome of loading the two GIFs.
InitAnimation ==
    /\ InitSession
    /\ speaking_gif_load_successful = TRUE
    /\ thinking_gif_load_successful = TRUE
    /\ NoScene
    /\ NoSttRun
    /\ NoStopCall
    /\ NoDeepSeekRequest
    /\ NoWorkerRun
    /\ \E speaking, thinking \in LoadOutcomes :
          animation_handler = NewAnimationHandler(speaking, thinking)

NextAnimation ==
    \/ SetupInitialDisplay
    \/ SetSpeakingActive
    \/ SetThinking
    \/ NarrationAudioFinished
    \/ MovieFinishes

SpecAnimation == InitAnimation /\ [][NextAnimation]_vars

\* One capture run or one narration run, with every text to speak.
InitRuns ==
    /\ InitSession
    /\ speaking_gif_load_successful = TRUE
    /\ thinking_gif_load_successful = TRUE
    /\ NoScene
    /\ NoSttRun
    /\ NoStopCall
    /\ NoDeepSeekRequest
    /\ NoAnimation
    /\ \/ worker_run = NewAudioRun
       \/ \E text \in Texts : worker_run = NewTtsRun(text)

NextRuns ==
    \/ AudioRunBegins
    \/ AudioCallback
    \/ AudioStopRecording
    \/ AudioLoopExits
    \/ AudioRaises
    \/ TtsFilters
    \/ TtsInitializesEngine
    \/ TtsChecksStop
    \/ TtsSays
    \/ TtsRunAndWaitEnds
    \/ TtsFinally
    \/ TtsStopSignal

SpecRuns == InitRuns /\ [][NextRuns]_vars

\* The application with the user closing its window at some time.
NextClose ==
    \/ Next
    \/ CloseEvent

SpecClose == Init /\ [][NextClose]_vars

InitScene ==
    /\ InitSession
    /\ speaking_gif_load_successful = TRUE
    /\ thinking_gif_load_successful = TRUE
    /\ InitVideo
    /\ NoSttRun
    /\ NoStopCall
    /\ NoDeepSeekRequest
    /\ NoAnimation
    /\ NoWorkerRun

NextScene ==
    \/ PlayForTts
    \/ TtsAudioHasFinished
    \/ SetToFrozenState
    \/ StopAllMediaActivity
    \/ MediaLoaded
    \/ PlaybackAdvances
    \/ EndOfMedia
    \/ PlaybackReverses
    \/ MediaError

SpecScene == InitScene /\ [][NextScene]_vars

\* The engine keeps playing while it is in the playing state, and finishes
\* loading.
SpecSceneFair ==
    /\ SpecScene
    /\ WF_vars(MediaLoaded)
    /\ WF_vars(PlaybackAdvances)
    /\ WF_vars(EndOfMedia)
    /\ WF_vars(PlaybackReverses)

\* ------------------------------------------------------ undisturbed session
\* The application with every worker succeeding and a user who activates the
\* hat when nothing is going on, records once when a narrated question
\* awaits its answer, stops the recording once, and does nothing else.

\* A question has been narrated and nothing is running or pending.
AwaitsAnswer ==
    /\ call_stack = <<>>
    /\ posted = <<>>
    /\ \A w \in Ids : threads[w].st # "run"
    /\ interaction_step \in 1..questions_to_ask_this_session
    /\ current_oracle_state = "thinking"

\* Every posted result is a success: finished_signal, a recording with
\* audio, a transcript with text.
ResultsGood(calls) ==
    \A i \in 1..Len(calls) :
        /\ calls[i].sig = "finished"
        /\ calls[i].kind = "capture" => ~NoAudioCaptured(calls[i].n)
        /\ calls[i].kind = "transcription" => calls[i].arg = "text"

UserActivates ==
    /\ call_stack = <<>> /\ posted = <<>>
    /\ \A w \in Ids : threads[w].st # "run"
    /\ interaction_step = 0 /\ current_oracle_state = "idle"
    /\ Activate

UserRecords ==
    /\ AwaitsAnswer
    /\ StartRecording

UserStops ==
    /\ call_stack = <<>>
    /\ StopAudioRecording

CaptureStarts ==
    \E w \in Ids : CaptureBegin(w) /\ threads'[w].st = "run"

CaptureEnds ==
    \E w \in Ids : CaptureFinish(w) /\ ResultsGood(posted')

Transcribed ==
    \E w \in Ids : TranscriptionRun(w) /\ ResultsGood(posted')

Replied ==
    \E w \in Ids : DialogueRun(w) /\ ResultsGood(posted')

Narrated ==
    \E w \in Ids : NarrationSpoken(w)

NextSession ==
    \/ UserActivates
    \/ UserRecords
    \/ UserStops
    \/ Deliver
    \/ ReturnFromProcessEvents
    \/ CaptureStarts
    \/ CaptureEnds
    \/ Transcribed
    \/ Replied
    \/ Narrated

\* The event loop runs, the threads run, and the user does act.
SpecSession ==
    /\ Init
    /\ [][NextSession]_vars
    /\ WF_vars(UserActivates)
    /\ WF_vars(UserRecords)
    /\ WF_vars(UserStops)
    /\ WF_vars(Deliver)
    /\ WF_vars(ReturnFromProcessEvents)
    /\ WF_vars(CaptureStarts)
    /\ WF_vars(CaptureEnds)
    /\ WF_vars(Transcribed)
    /\ WF_vars(Replied)
    /\ WF_vars(Narrated)

\* ------------------------------------------------------ transcription run
\* stt_input_language_mode as the worker can be given it: 1, 2, 3, or a
\* value it does not know.
SttModes == 1..4

\* A SpeechToTextWorker about to run, with what its environment will do:
\* the audio file is there or not, and the outcome of each recognition.
InitStt ==
    /\ InitSession
    /\ speaking_gif_load_successful = TRUE
    /\ thinking_gif_load_successful = TRUE
    /\ NoScene
    /\ NoStopCall
    /\ NoDeepSeekRequest
    /\ NoAnimation
    /\ NoWorkerRun
    /\ stt_run \in [pc : {"start"}, mode : SttModes, file_ok : BOOLEAN,
                     first : Recognitions, second : Recognitions,
                     attempts : {<<>>}, signals : {<<>>}]

\* SpeechToTextWorker.run, from start to return.
SpeechToTextRun ==
    /\ stt_run.pc = "start"
    /\ stt_run' =
          [stt_run EXCEPT
              !.pc = "done",
              !.attempts = SttAttempts(stt_run.mode, stt_run.file_ok,
                                       stt_run.first, stt_run.second),
              !.signals = SttSignals(stt_run.mode, stt_run.file_ok,
                                     stt_run.first, stt_run.second)]
    /\ UNCHANGED <<app_vars, video_handler, stop_call,
                   deepseek_request, animation_handler, worker_run>>

NextStt == SpeechToTextRun

SpecStt == InitStt /\ [][NextStt]_vars

\* ------------------------------------------------------- dialogue request
\* One DeepSeekWorker.run up to its request: the system prompt, the user
\* message and max_tokens, from what the worker was constructed with and
\* the api_parameters.max_tokens_override setting.

\* conversation_step as the orchestrator can pass it.
ConversationSteps == 0..(MaxQuestions + 1) \cup {FINAL_SORTING_STEP_COMPLETE}

\* user_text: None, the empty string or a transcript.
UserTexts == {"none", "empty", "text"}

Overrides == -1..MaxOverride

\* get_system_prompt: the step-specific part of the prompt and the
\* sentence about its length.
get_system_prompt(conversation_step, questions_for_this_round) ==
    [turn |-> Turn(conversation_step, questions_for_this_round),
     question_number |->
         IF conversation_step < questions_for_this_round
         THEN conversation_step + 1 ELSE 0,
     first_question |->
         conversation_step < questions_for_this_round /\ conversation_step = 0,
     length_of |->
         IF conversation_step < questions_for_this_round
         THEN "question" ELSE "answer"]

construct_user_message(conversation_step, user_text) ==
    IF conversation_step = 0 /\ user_text = "none"
    THEN "give_first_question"
    ELSE IF user_text = "text"
    THEN "student_says"
    ELSE IF conversation_step > 0
    THEN "not_heard"
    ELSE "ready_for_first_question"

\* max_tokens that lets a non-positive override through.
MaxTokensOverridden(step, planned, max_tokens_override) ==
    max_tokens_override

\* run: max_tokens of the request.
MaxTokens(conversation_step, questions_for_this_round, max_tokens_override) ==
    IF max_tokens_override > 0
    THEN max_tokens_override
    ELSE IF conversation_step < questions_for_this_round
    THEN QuestionMaxTokens
    ELSE SortingMaxTokens

\* A DeepSeekWorker about to run.
InitRequest ==
    /\ InitSession
    /\ speaking_gif_load_successful = TRUE
    /\ thinking_gif_load_successful = TRUE
    /\ NoScene
    /\ NoSttRun
    /\ NoStopCall
    /\ NoAnimation
    /\ NoWorkerRun
    /\ \E step \in ConversationSteps, planned \in QuestionRange,
          text \in UserTexts, override \in Overrides :
          deepseek_request =
              [pc |-> "start", conversation_step |-> step,
               questions_for_this_round |-> planned, user_text |-> text,
               max_tokens_override |-> override,
               system_prompt |-> "-", user_message |-> "-", max_tokens |-> 0]

\* DeepSeekWorker.run, to requests.post.
DeepSeekRequest ==
    /\ deepseek_request.pc = "start"
    /\ deepseek_request' =
          [deepseek_request EXCEPT
              !.pc = "posted",
              !.system_prompt =
                  get_system_prompt(deepseek_request.conversation_step,
                                    deepseek_request.questions_for_this_round),
              !.user_message =
                  construct_user_message(deepseek_request.conversation_step,
                                         deepseek_request.user_text),
              !.max_tokens =
                  MaxTokens(deepseek_request.conversation_step,
                            deepseek_request.questions_for_this_round,
                            deepseek_request.max_tokens_override)]
    /\ UNCHANGED <<app_vars, video_handler, stt_run, stop_call,
                 animation_handler, worker_run>>

NextRequest == DeepSeekRequest

SpecRequest == InitRequest /\ [][NextRequest]_vars

\* ------------------------------------------------------------- stop call
\* One call of _safe_stop_worker(worker, name, timeout_ms), with time: the
\* waits are QThread.wait(ms), and time passes in steps of TickMs.
TickMs == TerminateWaitMs

Timeouts == {InterruptTimeoutMs, DefaultTimeoutMs, ShutdownTimeoutMs}

\* The call at its entry.  worker is the argument: None, a running thread
\* or a finished one; needs_ms is how long the running thread's run() still
\* takes when left alone (the stop request may or may not shorten it).
NewStopCall(kind, timeout_ms, worker, needs_ms) ==
    [pc |-> "entry", kind |-> kind, timeout_ms |-> timeout_ms,
     worker |-> worker, needs_ms |-> needs_ms,
     requested |-> FALSE,     \* stop_recording / stop_tts_signal, quit()
     connected |-> TRUE,      \* the worker's signals
     waited_ms |-> 0,         \* time spent in the current wait()
     timed_out |-> FALSE,     \* wait(timeout_ms) returned False
     terminated |-> FALSE,    \* terminate() was called
     total_ms |-> 0,          \* history: time since the entry
     stopped_at |-> -1]       \* history: when run() returned by itself

InitStop ==
    /\ InitSession
    /\ speaking_gif_load_successful = TRUE
    /\ thinking_gif_load_successful = TRUE
    /\ NoScene
    /\ NoSttRun
    /\ NoDeepSeekRequest
    /\ NoAnimation
    /\ NoWorkerRun
    /\ \E kind \in Kinds, timeout_ms \in Timeouts,
          worker \in {"none", "running", "finished"}, n \in 1..MaxRunTicks :
          stop_call = NewStopCall(kind, timeout_ms, worker,
                                  IF worker = "running" THEN n * TickMs
                                  ELSE 0)

StopStep(c) ==
    /\ stop_call' = c
    /\ UNCHANGED <<app_vars, video_handler, stt_run, deepseek_request,
                 animation_handler, worker_run>>

\* "if worker and worker.isRunning()": the stop request, the disconnects
\* and quit(); nothing for None or a worker that is not running.
StopEntry ==
    /\ stop_call.pc = "entry"
    /\ StopStep(IF stop_call.worker = "running"
                THEN [stop_call EXCEPT !.requested = TRUE,
                                       !.connected = FALSE,
                                       !.pc = "wait"]
                ELSE [stop_call EXCEPT !.pc = "returned"])

\* Time passes inside wait(timeout_ms); the worker's run() may return.
WaitTick ==
    /\ stop_call.pc = "wait"
    /\ stop_call.worker = "running"
    /\ stop_call.waited_ms < stop_call.timeout_ms
    /\ LET left == stop_call.needs_ms - TickMs
           now == stop_call.total_ms + TickMs
       IN  StopStep([stop_call EXCEPT
                        !.waited_ms = @ + TickMs,
                        !.total_ms = now,
                        !.needs_ms = IF left > 0 THEN left ELSE 0,
                        !.worker = IF left > 0 THEN "running" ELSE "finished",
                        !.stopped_at = IF left > 0 THEN @ ELSE now])

\* A wait that skips the forced termination's precondition.
AfterWaitTerminates(c, finished) ==
    [c EXCEPT !.terminated = TRUE, !.waited_ms = 0, !.pc = "terminate_wait"]

\* "if not worker.wait(timeout_ms): ... worker.terminate()"
AfterWait(c, finished) ==
    IF finished
    THEN [c EXCEPT !.pc = "returned"]
    ELSE [c EXCEPT !.timed_out = TRUE, !.terminated = TRUE,
                   !.waited_ms = 0, !.pc = "terminate_wait"]

\* wait(timeout_ms) returns True: the thread has finished.
WaitSucceeds ==
    /\ stop_call.pc = "wait"
    /\ stop_call.worker = "finished"
    /\ StopStep(AfterWait(stop_call, TRUE))

\* wait(timeout_ms) returns False: the time is up and the thread runs.
WaitTimesOut ==
    /\ stop_call.pc = "wait"
    /\ stop_call.worker = "running"
    /\ stop_call.waited_ms >= stop_call.timeout_ms
    /\ StopStep(AfterWait(stop_call, FALSE))

\* wait(500) after terminate(): the thread is gone in time or it is not;
\* the call returns in both cases.
TerminateWait ==
    /\ stop_call.pc = "terminate_wait"
    /\ \E killed \in BOOLEAN :
          StopStep([stop_call EXCEPT
                       !.worker = IF killed THEN "finished" ELSE @,
                       !.waited_ms = IF killed THEN 0 ELSE TerminateWaitMs,
                       !.total_ms = IF killed THEN @ ELSE @ + TerminateWaitMs,
                       !.pc = "returned"])

NextStop ==
    \/ StopEntry
    \/ WaitTick
    \/ WaitSucceeds
    \/ WaitTimesOut
    \/ TerminateWait

\* The main thread and the clock do not stop during the call.
SpecStop == InitStop /\ [][NextStop]_vars /\ WF_vars(NextStop)

\* ------------------------------------------------------------------ claims
\* The running workers of a kind (QThread.isRunning).
Live(kind) == {w \in Ids : threads[w].st = "run" /\ threads[w].kind = kind}

NoWorkerLive == \A w \in Ids : threads[w].st # "run"

\* The session state the reset leaves: step 0, oracle idle.
Idle == interaction_step = 0 /\ current_oracle_state = "idle"

\* The step delivers the first posted call.
Delivered == posted # <<>> /\ posted' = Tail(posted)

\* The worker that posted call e is no longer the one its slot refers to:
\* _stop_all_active_workers has cleared the slot, or a later worker of the
\* kind has taken it.
Superseded(e) == Slot(St, e.kind) # e.w

\* ev.h of on_deepseek_response_received, by what the worker was asked for.
DsOk == {"ds_question", "ds_sorting", "ds_neither"}

\* C1: in every reachable state at most one worker of each kind is running.
C1_AtMostOneLivePerKind ==
    \A kind \in Kinds : Cardinality(Live(kind)) <= 1

\* C2: delivering the completion signal of a superseded worker changes
\* neither interaction_step, nor the oracle state, nor any worker slot, and
\* leaves no worker running that was not running before.
C2_SupersededSignalDropped ==
    [][(Delivered /\ Head(posted).sig = "finished" /\ Superseded(Head(posted)))
       => /\ interaction_step' = interaction_step
          /\ current_oracle_state' = current_oracle_state
          /\ recorder_worker' = recorder_worker
          /\ stt_worker' = stt_worker
          /\ deepseek_worker' = deepseek_worker
          /\ tts_worker' = tts_worker
          /\ \A w \in Ids : threads'[w].st = "run" => threads[w].st = "run"]_vars

\* C3: in every state, and so after every session reset (at start, on
\* activation, on recording from idle, on an error, at the end of the
\* sorting narration), questions_to_ask_this_session is in 3..5.
C3_QuestionsPlannedInRange == questions_to_ask_this_session \in 3..5

\* A reset at the end of the sorting narration has just been completed.
C3_ResetAfterSorting ==
    ev.h = "tts_final" /\ interaction_step = 0

\* C4: a dialogue success makes interaction_step the terminal sentinel only
\* when it is received at interaction_step = questions_to_ask_this_session,
\* and the reply received is the sorting reply exactly when it does so: no
\* sorting reply before the planned questions, no question after them.
C4_SortsExactlyAfterPlannedQuestions ==
    LET sorts == interaction_step = FINAL_SORTING_STEP_COMPLETE /\ ~ev.same_step
    IN  ev.h \in DsOk => /\ sorts => ev.at_planned
                         /\ ev.h = "ds_sorting" <=> sorts

\* C5: after activation, one dialogue success and then the end of a
\* narration, with nothing else handled in between or since,
\* interaction_step is 1, record and activate are enabled, stop is
\* disabled, and the session has not been reset since the activation.
C5_FirstQuestionAsked ==
    hist = <<"activate", "ds_ok", "tts_fin">> =>
        /\ interaction_step = 1
        /\ record_button /\ activate_hat_button /\ ~stop_button
        /\ resets = 0

\* The first question has been asked and narrated.
C5_FirstQuestionNarrated ==
    /\ hist = <<"activate", "ds_ok", "tts_fin">>
    /\ interaction_step = 1
    /\ record_button

\* C6: a dialogue success at interaction_step = questions_to_ask_this_session
\* makes the step the terminal sentinel; when on_tts_playback_finished has
\* run at the terminal step the session is reset (step 0, oracle idle, no
\* worker running); when it has run at another step the step is unchanged.
C6_SortingEndsInFullReset ==
    /\ (ev.h \in DsOk /\ ev.at_planned /\ ev.same_planned)
          => interaction_step = FINAL_SORTING_STEP_COMPLETE
    /\ ev.h = "tts_final" => Idle /\ NoWorkerLive
    /\ ev.h = "tts_fin" => ev.same_step

\* C7: when on_recording_session_finished has handled a capture with no
\* audio (no file, or fewer than 1024 bytes), interaction_step has the
\* value it had before.
C7_EmptyCaptureKeepsStep ==
    ev.h = "rec_empty" => ev.same_step

\* C8: when a blank transcription or a transcription error has been
\* handled, interaction_step and questions_to_ask_this_session have the
\* values they had before.
C8_TranscriptionFailureKeepsSession ==
    ev.h \in {"stt_blank", "err_transcription"} =>
        ev.same_step /\ ev.same_planned

\* C9: when a capture, dialogue or narration error has been handled and no
\* signal of a failed run is still to come (nothing posted, no narration
\* worker between its error_signal and its finished_signal), the session is
\* idle at step 0 and no worker is running.
C9_WorkerErrorEndsInIdle ==
    (/\ ev.h \in {"err_capture", "err_dialogue", "err_narration"}
     /\ posted = <<>>
     /\ \A w \in Ids : threads[w].pc # "finally")
    => Idle /\ NoWorkerLive

\* C10: a worker run that has ended by itself (not stopped) has emitted
\* exactly one result signal: one finished_signal or one error_signal.
C10_ExactlyOneResultSignal ==
    run_end.kind # "none" => run_end.nfin + run_end.nerr = 1

\* The orchestrator is awaiting a recording: a capture worker is running
\* and stop_recording has not been called on it.
AwaitingRecording ==
    \E w \in Live("capture") : ~threads[w].told

\* Nothing is going on: no handler is waiting in a nested event loop, no
\* call is posted, no worker is running, and the session is at step 0, idle.
Quiescent ==
    call_stack = <<>> /\ posted = <<>> /\ NoWorkerLive /\ Idle

\* C11: activate is always enabled; while a capture worker is running and
\* has not been told to stop, record is disabled and stop is enabled; when
\* the orchestrator is idle, transcribing, consulting or narrating (and not
\* awaiting a recording) record is enabled and stop is disabled.
C11_AffordancesFollowState ==
    /\ activate_hat_button
    /\ AwaitingRecording => ~record_button /\ stop_button
    /\ (/\ ~AwaitingRecording
        /\ \/ Quiescent
           \/ Live("transcription") # {}
           \/ Live("dialogue") # {}
           \/ Live("narration") # {})
       => record_button /\ ~stop_button

\* The threads whose run() has not returned.
LiveWorkers == {w \in Ids : threads[w].st = "run"}

\* C12: when activate_oracle_interaction returns, the only live worker is the
\* dialogue worker it started, for step 0 and without user text; when
\* start_recording_router returns, the only live worker is the capture worker
\* it started.
C12_InterruptLeavesOnlyItsWorker ==
    /\ ev.h = "activate" =>
          /\ LiveWorkers = {deepseek_worker}
          /\ threads[deepseek_worker].kind = "dialogue"
          /\ threads[deepseek_worker].hat_initiates
    /\ ev.h \in {"record", "record_idle"} =>
          /\ LiveWorkers = {recorder_worker}
          /\ threads[recorder_worker].kind = "capture"

\* C20: in no reachable state is a capture worker live while a transcription
\* worker is live.
C20_NoCaptureWhileTranscribing ==
    Live("capture") = {} \/ Live("transcription") = {}

\* C13: with the thinking GIF missing, a request for the idle loop emits
\* cycle-complete before another such request is made: at most one request
\* is ever waiting for its cycle-complete signal (no re-entry).
C13_IdleRequestNotReentered ==
    ~thinking_gif_load_successful => PendingCycles(call_stack) <= 1

\* Reversing: playing backwards with the reversing flag set.
Reversing(v) ==
    /\ v.is_video_reversing
    /\ v.playbackState = "Playing"
    /\ v.playbackRate < 0

\* The narration cycle play_for_tts (from Frozen), tts_audio_has_finished
\* (while playing), natural end of media has happened, and nothing but
\* position reports since.
CycleEnded == video_handler.phase = "ended"

\* After the cycle, with an engine that accepts rate -1.0: Reversing with
\* no cycle-complete emitted yet, or Frozen again after having been
\* Reversing, with exactly one cycle-complete emitted since play_for_tts.
ReversingOrFrozenOnce ==
    (CycleEnded /\ video_handler.rate_supported) =>
        \/ /\ Reversing(video_handler)
           /\ video_handler.cycle_emits = 0
        \/ /\ Frozen(video_handler)
           /\ video_handler.was_reversing
           /\ video_handler.cycle_emits = 1

\* C14: with an engine that accepts rate -1.0, after play_for_tts from Frozen,
\* a reverse request and the natural end of media, the presenter is Reversing
\* and then Frozen, with exactly one cycle-complete emitted between the
\* play_for_tts call and the return to Frozen; and it does return to Frozen
\* (unless another call or an error ends the cycle first).
C14_ReverseCycleEmitsOnce ==
    /\ []ReversingOrFrozenOnce
    /\ (CycleEnded /\ video_handler.rate_supported)
           ~> (Frozen(video_handler) \/ ~CycleEnded)

C14_FrozenAfterReverse ==
    /\ CycleEnded
    /\ video_handler.rate_supported
    /\ Frozen(video_handler)
    /\ video_handler.was_reversing
    /\ video_handler.last = "position"

\* C15: with an engine that does not accept rate -1.0, is_video_reversing is
\* never true, and after play_for_tts, a reverse request and the end of media
\* the presenter is Frozen with the reverse-pending flag cleared.
C15_NoReverseWhenUnsupported ==
    ~video_handler.rate_supported =>
        /\ ~video_handler.is_video_reversing
        /\ ~video_handler.was_reversing
        /\ CycleEnded =>
              /\ Frozen(video_handler)
              /\ ~video_handler.reverse_after_play_completes

C15_FrozenWithoutReverse ==
    /\ CycleEnded
    /\ ~video_handler.rate_supported
    /\ video_handler.last = "end_of_media"
    /\ Frozen(video_handler)

\* C16: when on_media_error has run in one of the states Initializing,
\* PlayingForward, AwaitingReverseTrigger and Reversing, every pending flag is cleared, the
\* presenter is Frozen and the handler has emitted cycle-complete.
C16_ErrorReturnsToFrozen ==
    (/\ video_handler.last = "error"
     /\ video_handler.from \in {"Initializing", "PlayingForward",
                                "AwaitingReverseTrigger", "Reversing"}) =>
        /\ ~video_handler.expect_tts_related_play
        /\ Frozen(video_handler)
        /\ video_handler.step_emits >= 1

\* The candidate languages of a mode, in order.
Candidates(mode) ==
    CASE mode = 1 -> <<"en-US">>
      [] mode = 2 -> <<"cmn-Hans-CN">>
      [] mode = 3 -> <<"en-US", "cmn-Hans-CN">>
      [] OTHER -> <<>>

\* What the i-th recognition attempt of the run returns.
Outcome(i) == IF i = 1 THEN stt_run.first ELSE stt_run.second

\* C19: a finished transcription run has tried the candidate languages of its
\* mode in order; it reports success exactly when an attempt returned
\* non-blank text, with that text and without trying a later language; when
\* every attempt failed or returned blank it reports failure, and it never
\* reports success with blank text.
C19_FirstNonBlankWins ==
    (stt_run.pc = "done" /\ stt_run.file_ok) =>
        LET tried == stt_run.attempts
            cand == Candidates(stt_run.mode)
            won == {i \in 1..Len(cand) : Outcome(i) = "text"}
        IN  /\ Len(tried) <= Len(cand)
            /\ \A i \in 1..Len(tried) : tried[i] = cand[i]
            /\ Len(stt_run.signals) = 1
            /\ IF won = {}
               THEN /\ stt_run.signals[1].sig = "error"
                    /\ tried = cand
               ELSE /\ stt_run.signals[1].sig = "finished"
                    /\ stt_run.signals[1].arg = "text"
                    /\ Len(tried) = Min(won)

\* terminate() only after the stop request and a wait that timed out, never
\* for a worker that stopped within the timeout; the waits are bounded.
TerminateIsLastResort ==
    /\ stop_call.terminated =>
          /\ stop_call.requested
          /\ stop_call.timed_out
          /\ ~(/\ stop_call.stopped_at >= 0
               /\ stop_call.stopped_at <= stop_call.timeout_ms)
    /\ stop_call.total_ms <= stop_call.timeout_ms + TerminateWaitMs

\* C18: forced termination is issued only after a cooperative stop request
\* for the worker and a bounded join that timed out; a worker that stops
\* within the timeout is never terminated; and _safe_stop_worker returns.
C18_TerminateOnlyAfterTimeout ==
    /\ []TerminateIsLastResort
    /\ <>(stop_call.pc = "returned")

C18_TerminatedAfterTimeout ==
    /\ stop_call.pc = "returned"
    /\ stop_call.terminated
    /\ stop_call.total_ms >= stop_call.timeout_ms

\* What a step does not do once shutdown has begun: change the session
\* fields or start a worker.
SessionFrozen ==
    /\ interaction_step' = interaction_step
    /\ questions_to_ask_this_session' = questions_to_ask_this_session
    /\ current_oracle_state' = current_oracle_state
    /\ \A w \in Ids : threads'[w].st = "run" => threads[w].st = "run"

\* C17: once closeEvent has begun, no step changes interaction_step,
\* questions_to_ask_this_session or current_oracle_state or starts a worker,
\* and when closeEvent has finished the four worker slots are empty.
C17_ShutdownFreezesSession ==
    /\ [][is_shutting_down => SessionFrozen]_vars
    /\ [](ev.h = "close" =>
            /\ recorder_worker = 0
            /\ stt_worker = 0
            /\ deepseek_worker = 0
            /\ tts_worker = 0)

\* C21: _safe_stop_worker on None or on a worker that has finished changes
\* nothing (no state, no posted signal); stop_recording, stop_tts_signal and
\* _safe_stop_worker applied a second time change nothing more than the
\* first time.
C21_StopIsIdempotent ==
    /\ \A kind \in Kinds :
          ~isRunning(St, Slot(St, kind)) =>
              SafeStopWorker(St, Slot(St, kind)) = St
    /\ \A w \in Ids :
          /\ threads[w].st = "done" => SafeStopWorker(St, w) = St
          /\ SafeStopWorker(SafeStopWorker(St, w), w) = SafeStopWorker(St, w)
          /\ (Running(w) /\ threads[w].kind = "capture") =>
                /\ StopRecordingFlag(StopRecordingFlag(St, w), w)
                      = StopRecordingFlag(St, w)
                /\ threads[w].told /\ ~threads[w].recording =>
                      StopRecordingFlag(St, w) = St
          /\ (Running(w) /\ threads[w].kind = "narration") =>
                StopTtsSignal(StopTtsSignal(St, w), w) = StopTtsSignal(St, w)

\* A capture worker that was told to stop is still running and in its slot
\* while a finished worker is still named by another slot: the next
\* interrupt calls stop_recording again and the stop procedure on the
\* finished worker.
C21_StoppedWorkerStoppedAgain ==
    /\ isRunning(St, recorder_worker)
    /\ threads[recorder_worker].told
    /\ record_button
    /\ \E kind \in Kinds :
          Slot(St, kind) \in Ids /\ threads[Slot(St, kind)].st = "done"

\* A call or an engine event has just taken the presenter to Frozen from
\* another state, or set_to_frozen_state has been called in Frozen.
ReachedFrozen ==
    /\ Frozen(video_handler)
    /\ \/ video_handler.from # "Frozen"
       \/ video_handler.last = "set_to_frozen_state"

\* C22: every call or event that ends in Frozen has emitted cycle-complete
\* exactly once, and so has the construction of the presenter, with the
\* video file loaded (Frozen is reached later) and with the file missing.
C22_FrozenEmitsOnce ==
    /\ ReachedFrozen => video_handler.step_emits = 1
    /\ (video_handler.last = "init" /\ ~video_handler.video_load_successful)
          => video_handler.step_emits = 1

\* The reverse request arrived while the clip was playing forward (after
\* play_for_tts from Frozen), and nothing but position reports since.
RequestWhilePlaying == video_handler.phase = "awaiting"

\* The clip played forward from Frozen and reached its end first, and the
\* reverse request has just arrived.
RequestAfterClipEnded == video_handler.phase = "late"

\* The reversal path has been taken: playing in reverse where the engine
\* accepts rate -1.0, Frozen where it does not.
ReversalTaken ==
    IF video_handler.rate_supported
    THEN Reversing(video_handler)
    ELSE Frozen(video_handler)

\* C23: a reverse request during forward play is kept as the pending flag,
\* with nothing reversed or emitted yet, and the next end of media takes the
\* reversal path; a request that arrives after the clip has ended takes the
\* reversal path at once.
C23_ReverseRequestHonoured ==
    /\ RequestWhilePlaying =>
          /\ video_handler.reverse_after_play_completes
          /\ ~video_handler.is_video_reversing
          /\ video_handler.cycle_emits = 0
    /\ (CycleEnded /\ video_handler.last = "end_of_media") => ReversalTaken
    /\ RequestAfterClipEnded => ReversalTaken

\* None of the four flags that explain a playing player is set.
NoPlayExpected(v) ==
    /\ ~v.is_initializing_first_frame
    /\ ~v.is_video_reversing
    /\ ~v.reverse_after_play_completes
    /\ ~v.expect_tts_related_play

\* C24: the player is never left in the playing state with the flags
\* initializing, reversing, reverse-pending and expect-narration-play all
\* clear.
C24_NoUnexplainedPlaying ==
    ~(video_handler.playbackState = "Playing" /\ NoPlayExpected(video_handler))

\* A position report has arrived while Reversing.
ReportWhileReversing ==
    /\ Reversing(video_handler)
    /\ video_handler'.last = "position"

\* C25: a position report while Reversing either is above the first 50 ms
\* and leaves the presenter Reversing, or has paused the player, cleared the
\* reversing flag and taken the presenter to Frozen with one cycle-complete
\* signal; the presenter is never left Reversing at or below 50 ms.
C25_ReverseEndsAtStart ==
    [][ReportWhileReversing =>
          \/ /\ Reversing(video_handler')
             /\ video_handler'.position > NearStart
             /\ video_handler'.step_emits = 0
          \/ /\ Frozen(video_handler')
             /\ ~video_handler'.is_video_reversing
             /\ video_handler'.playbackState = "Paused"
             /\ video_handler'.step_emits = 1]_vars

C25_PausedNearStart ==
    /\ video_handler.last = "position"
    /\ video_handler.from = "Reversing"
    /\ video_handler.was_reversing
    /\ Frozen(video_handler)
    /\ video_handler.step_emits = 1

\* Initializing: the freeze sequence (play, then pause on the first frame)
\* is under way.
Initializing(v) ==
    /\ v.video_load_successful
    /\ v.is_initializing_first_frame

\* Calls and events that end the freeze sequence without completing it.
InitInterrupted(v) ==
    v.last \in {"play_for_tts", "stop_all_media_activity", "error"}

\* The player reports the stopped state while initializing.
StoppedWhileInitializing(v) ==
    [v EXCEPT !.is_initializing_first_frame = TRUE,
              !.playbackState = "Stopped", !.step_emits = 0]

\* on_playback_state_changed(Stopped) while initializing (and not reversing)
\* with media loaded re-issues play, and that play ends paused on the first frame with the
\* flags cleared and one cycle-complete.
ReplayOnStopped ==
    (/\ video_handler.video_load_successful
     /\ ~video_handler.is_video_reversing
     /\ StatusRank(video_handler.mediaStatus) >= 2) =>
        LET u == StoppedWhileInitializing(video_handler)
            r == on_playback_state_changed(u, "Stopped")
        IN  /\ r = play(u)
            /\ r.playbackState = "Paused"
            /\ ~r.is_initializing_first_frame
            /\ ~r.is_video_reversing
            /\ ~r.reverse_after_play_completes
            /\ r.step_emits = 1

\* C26: a step taken while Initializing (other than play_for_tts,
\* stop_all_media_activity and an error) leaves the presenter Initializing
\* with nothing emitted, or has played and paused: Frozen, the initializing,
\* reversing and reverse-pending flags clear, one cycle-complete emitted; a
\* stopped report while initializing with media loaded re-issues play; and
\* Initializing always comes to an end.
C26_InitializationFreezes ==
    /\ [][(Initializing(video_handler) /\ ~InitInterrupted(video_handler')) =>
            \/ /\ Initializing(video_handler')
               /\ video_handler'.step_emits = 0
            \/ /\ Frozen(video_handler')
               /\ video_handler'.step_emits = 1]_vars
    /\ []ReplayOnStopped
    /\ Initializing(video_handler) ~> ~Initializing(video_handler)

C26_FrozenAfterLoad ==
    /\ video_handler.last = "loaded"
    /\ video_handler.from = "Initializing"
    /\ Frozen(video_handler)
    /\ video_handler.step_emits = 1

\* The presenter's flags and its player, without the history fields.
HandlerAndPlayer(v) ==
    [video_load_successful |-> v.video_load_successful,
     is_initializing_first_frame |-> v.is_initializing_first_frame,
     is_video_reversing |-> v.is_video_reversing,
     reverse_after_play_completes |-> v.reverse_after_play_completes,
     expect_tts_related_play |-> v.expect_tts_related_play,
     playbackState |-> v.playbackState,
     mediaStatus |-> v.mediaStatus,
     position |-> v.position,
     playbackRate |-> v.playbackRate,
     loops |-> v.loops,
     rate_supported |-> v.rate_supported]

\* C27: play_for_tts with the video loaded sets loops to 1, the rate to +1
\* and the position to 0, clears the initializing, reversing and
\* reverse-pending flags, sets the expect flag and leaves the player playing
\* (when the player has the media), emitting nothing; with the video not
\* loaded it changes nothing.
C27_PlayForTtsEffect ==
    [][video_handler'.last = "play_for_tts" =>
          IF video_handler.video_load_successful
          THEN /\ video_handler'.loops = 1
               /\ video_handler'.playbackRate = 1
               /\ video_handler'.position = 0
               /\ ~video_handler'.is_initializing_first_frame
               /\ ~video_handler'.is_video_reversing
               /\ ~video_handler'.reverse_after_play_completes
               /\ video_handler'.expect_tts_related_play
               /\ StatusRank(video_handler.mediaStatus) >= 2 =>
                     video_handler'.playbackState = "Playing"
               /\ video_handler'.step_emits = 0
               /\ video_handler'.video_load_successful
          ELSE /\ HandlerAndPlayer(video_handler')
                     = HandlerAndPlayer(video_handler)
               /\ video_handler'.step_emits = 0]_vars

C27_PlayingForTts ==
    /\ video_handler.last = "play_for_tts"
    /\ video_handler.from \in {"Frozen", "Reversing"}
    /\ video_handler.expect_tts_related_play
    /\ video_handler.playbackState = "Playing"
    /\ video_handler.position = 0

\* C28: every dialogue worker is started with a conversation_step in
\* 0..questions_for_this_round: its turn is a question or the sorting, never
\* the turn of a step past the planned questions.
C28_DialogueStepWithinPlan ==
    \A w \in Ids :
        (threads[w].kind = "dialogue" /\ threads[w].st = "run") =>
            threads[w].arg \in {"question", "sorting"}

\* The request of a worker whose step is within the planned questions.
RequestWithinPlan ==
    /\ deepseek_request.pc = "posted"
    /\ deepseek_request.conversation_step
          <= deepseek_request.questions_for_this_round

\* C29: for conversation_step < questions_for_this_round the prompt asks for
\* question number conversation_step + 1 and max_tokens is 80; for
\* conversation_step = questions_for_this_round the prompt asks for the
\* sorting and max_tokens is 200; a positive max_tokens_override replaces
\* either limit; and the prompt is the one every worker with the same
\* (conversation_step, questions_for_this_round) gets, whatever its
\* user_text and override.
C29_TurnFromStepAndPlan ==
    RequestWithinPlan =>
        LET r == deepseek_request
            question == r.conversation_step < r.questions_for_this_round
        IN  /\ r.system_prompt.turn =
                  IF question THEN "question" ELSE "sorting"
            /\ question =>
                  r.system_prompt.question_number = r.conversation_step + 1
            /\ r.max_tokens =
                  IF r.max_tokens_override > 0 THEN r.max_tokens_override
                  ELSE IF question THEN 80 ELSE 200
            /\ r.system_prompt =
                  get_system_prompt(r.conversation_step,
                                    r.questions_for_this_round)

C29_SortingWithOverride ==
    /\ RequestWithinPlan
    /\ deepseek_request.conversation_step
          = deepseek_request.questions_for_this_round
    /\ deepseek_request.system_prompt.turn = "sorting"
    /\ deepseek_request.max_tokens_override > 0
    /\ deepseek_request.max_tokens = deepseek_request.max_tokens_override

\* C30: in an undisturbed session every activation is followed by the
\* terminal sentinel step, and the sentinel step by the idle state at step 0.
C30_SessionCompletes ==
    /\ (ev.h = "activate") ~> (interaction_step = FINAL_SORTING_STEP_COMPLETE)
    /\ (interaction_step = FINAL_SORTING_STEP_COMPLETE) ~> Idle

\* The main thread is about to run the assignments of
\* _reset_interaction_flow_and_ui: processEvents() of
\* _stop_all_active_workers returns into them.
ResetResumes ==
    /\ InLoop = "pe"
    /\ Head(call_stack).k # <<>>
    /\ Head(call_stack).k[1].op = "reset_assign"

DialogueSuccessHandled == ev.h \in {"ds_question", "ds_sorting", "ds_neither"}

\* C32: with the speaking GIF missing, on_deepseek_response_received
\* returns with the step it has just set, the oracle still speaking (no
\* session reset) and the narration worker started.
C32_MissingSpeakingGifIsNoOp ==
    (DialogueSuccessHandled /\ ~speaking_gif_load_successful) =>
        /\ interaction_step # 0
        /\ current_oracle_state = "speaking"
        /\ isRunning(St, tts_worker)

\* The speaking GIF is the only movie that may run, the thinking GIF
\* likewise, and never both: a running movie is the active one.
OnlyActiveMovieRuns(h) ==
    /\ h.active_movie \in {"thinking", "speaking", "none"}
    /\ ~(h.speaking_state = "Running" /\ h.thinking_state = "Running")
    /\ \A movie \in Movies :
          MovieState(h, movie) = "Running" => h.active_movie = movie

\* C33: the active movie is the thinking GIF, the speaking GIF or none; at
\* most one movie runs and a running movie is the active one;
\* _set_active_movie leaves no other movie running than the one it makes
\* active, and a step that changes the active movie leaves the movie that
\* was active stopped.
C33_OneActiveMovie ==
    /\ [](/\ OnlyActiveMovieRuns(animation_handler)
          /\ \A movie \in Movies \cup {"none"} :
                \A other \in Movies \ {movie} :
                    MovieState(set_active_movie(animation_handler, movie),
                               other) # "Running")
    /\ [][(/\ animation_handler'.active_movie
                  # animation_handler.active_movie
           /\ animation_handler.active_movie # "none") =>
              MovieState(animation_handler',
                         animation_handler.active_movie) # "Running"]_vars

\* set_thinking_animation has stopped the running speaking GIF and started
\* the thinking GIF.
C33_SwitchedToThinking ==
    /\ animation_handler.last = "set_thinking_animation"
    /\ animation_handler.switched
    /\ animation_handler.active_movie = "thinking"
    /\ animation_handler.thinking_state = "Running"

\* C34: a capture run that leaves its recording loop with no frames emits
\* finished_signal("") and no error_signal; a narration run whose text is
\* empty after the filter emits error_signal.
C34_EmptyResults ==
    /\ (/\ worker_run.kind = "capture"
        /\ worker_run.pc = "done"
        /\ worker_run.left_loop
        /\ worker_run.frames = 0) =>
           worker_run.emitted = <<[sig |-> "finished", arg |-> ""]>>
    /\ (/\ worker_run.kind = "narration"
        /\ worker_run.pc = "done"
        /\ filter_text_for_tts(worker_run.raw_text_to_speak) = <<>>) =>
           \E i \in 1..Len(worker_run.emitted) :
               worker_run.emitted[i].sig = "error"

\* A capture run was stopped before any audio block arrived and has ended.
C34_EndedWithoutFrames ==
    /\ worker_run.kind = "capture"
    /\ worker_run.pc = "done"
    /\ worker_run.left_loop
    /\ worker_run.frames = 0
    /\ worker_run.stop_calls > 0

\* C39: engine.say is never reached after stop_tts_signal has set the stop
\* flag: no synthesis begins once the worker was told to stop.
C39_NoSpeechAfterStop ==
    worker_run.kind = "narration" => ~worker_run.said_after_stop

\* C35: start_recording_router called outside Idle returns with
\* interaction_step and questions_to_ask_this_session as it found them and
\* with no worker live but the capture worker it started; called in Idle it
\* returns from a session reset: step 0, oracle idle.
C35_RecordingInterruptKeepsSession ==
    /\ ev.h = "record" =>
          /\ ev.same_step
          /\ ev.same_planned
          /\ LiveWorkers = {recorder_worker}
    /\ ev.h = "record_idle" =>
          /\ interaction_step = 0
          /\ current_oracle_state = "idle"

\* C36: before shutdown exactly one of the record and stop buttons is
\* enabled.
C36_RecordXorStop ==
    ~is_shutting_down => (stop_button <=> ~record_button)

\* A recording is being made: stop is enabled and record is not.
C36_StopEnabledWhileRecording ==
    /\ ~is_shutting_down
    /\ stop_button
    /\ ~record_button
    /\ isRunning(St, recorder_worker)
    /\ threads[recorder_worker].recording

\* C37: interaction_step is in 0..questions_to_ask_this_session or is the
\* terminal sentinel, and it is 0 whenever the oracle state is idle.
C37_StepInRange ==
    /\ \/ interaction_step \in 0..questions_to_ask_this_session
       \/ interaction_step = FINAL_SORTING_STEP_COMPLETE
    /\ current_oracle_state = "idle" => interaction_step = 0

\* The last planned question has been asked: the step has reached the
\* number of questions planned for the session.
C37_LastQuestionAsked ==
    /\ interaction_step = questions_to_ask_this_session
    /\ current_oracle_state = "speaking"
    /\ ev.h = "ds_question"

\* C38: when on_tts_playback_finished has run at the terminal step and its
\* reset has completed, cycle-complete callback included, the status line
\* reads "Sorting complete. Waiting for the next student...".
C38_SortingCompleteShown ==
    (ev.h = "tts_final" /\ ~is_shutting_down) =>
        status_label = "sorting_complete"

====
